---- MODULE Spec2Model ----
(***************************************************************************)
(* State-machine model of rag2f: the Morpheus hook dispatcher              *)
(* (rag2f/core/morpheus), the FluxCapacitor sync task engine and the async *)
(* job store, queue and AgentWorker (rag2f/core/flux_capacitor).           *)
(***************************************************************************)
EXTENDS Integers, Sequences, FiniteSets, TLC

VARIABLES
    disk,       \* plugin folders found under plugins_folder (environment)
    plugins,    \* Morpheus.plugins, a dict kept in insertion order
    hooks,      \* Morpheus.hooks: hook name -> list of PillHook
    hookCall,   \* observation of the last execute_hook call
    entryPoints,\* entry points of group rag2f.plugins (environment)
    discovery,  \* what the last find_plugins logged for each entry point
    tasks,      \* InMemoryTaskStore._tasks: task id -> Task
    children,   \* InMemoryTaskStore._children: parent id -> list of child ids
    queue,      \* InMemoryTaskQueue._queue
    nextId,     \* number of task ids generated so far (uuid4 is fresh)
    clock,      \* datetime.now(UTC), advanced at every reading
    lastRun,    \* observation of the last enqueue / run_once call
    trace,      \* history kept for the properties (per task id)
    jobStore,   \* InMemoryJobStore: jobs, children, parents, roots
    nextJob,    \* number of job ids generated so far (uuid4 is fresh)
    mq,         \* InMemoryQueue.queues: plugin id -> messages waiting
    workers,    \* the AgentWorker instances: where each is in run_forever
    admitted,   \* number of jobs submitted or requested so far
    loop,       \* a call of FluxCapacitor.worker_loop: arguments and locals
    registries, \* the four registries: embedders, repositories, stores, queues
    regOut,     \* observation of the last register call
    defaults,   \* FluxCapacitor._default_store_name, _default_queue_name
    hostEnv,    \* package managers on PATH and the plugin folders (environment)
    sysModules, \* sys.modules: the entries under the plugins namespace
    objects,    \* the hook handle objects created by module bodies
    execCount,  \* module name -> number of times its body was executed
    pluginObjs, \* the Plugin objects: _hooks, _plugin_overrides, _active
    lifecycle,  \* observation of the last load / activate / deactivate call
    validation, \* the arguments of a validate_queryspec call
    validated   \* what the call returned or raised

vars == <<disk, plugins, hooks, hookCall, entryPoints, discovery, tasks, children, queue, nextId,
          clock, lastRun, trace, jobStore, nextJob, mq, workers, admitted, loop,
          registries, regOut, defaults, hostEnv, sysModules, objects, execCount,
          pluginObjs, lifecycle, validation, validated>>

morpheusVars == <<disk, plugins, hooks, hookCall, entryPoints, discovery>>
fluxVars == <<tasks, children, queue, nextId, clock, lastRun, trace>>
agentVars == <<jobStore, nextJob, mq, workers, admitted>>
registryVars == <<registries, regOut, defaults>>
\* everything outside the dispatcher, the task engine and the async worker
lifecycleVars == <<hostEnv, sysModules, objects, execCount, pluginObjs, lifecycle>>
validationVars == <<validation, validated>>
hostVars == <<registryVars, lifecycleVars, validationVars>>

----------------------------------------------------------------------------
(* Bounds and input domains *)

MaxHandles == 2
MaxTasks == 3
MaxEmit == 2
MaxJobs == 4
MaxAdmit == 3

PluginIds == {"a", "b"}
HookNames == {"split", "embed"}
Priorities == {1, 2}
None == "<None>"

\* What a plugin-supplied hook function may do with its arguments.
Fns == {"append", "none", "raise", "empty"}

SeqsUpTo(S, n) == UNION {[1..k -> S] : k \in 0..n}

----------------------------------------------------------------------------
(* Hook handles and plugin loading *)

\* @hook(...): priority defaults to 1
DefaultPriority == 1

\* PillHook.__init__: plugin_id starts unset. func is the function object:
\* its identity (uid) and what it does when called (fn)
PillHook(name, func, priority) ==
    [name |-> name, function |-> func, priority |-> priority, plugin_id |-> None]

\* Plugin._clean_and_enrich_hook: set plugin_id only when the slot is unset
CleanAndEnrichHook(h, id) ==
    IF h.plugin_id = None THEN [h EXCEPT !.plugin_id = id] ELSE h

\* a folder path: the directory it lies in and its own name
Path(dir, base) == [dir |-> dir, base |-> base]
\* os.path.basename(os.path.normpath(plugin_path))
Basename(path) == path.base
\* a folder found under Morpheus.plugins_folder
FolderPath(id) == Path("plugins_folder", id)

\* Plugin.__init__ on a folder path: the id is the folder name, no hook yet
NewPlugin(path) ==
    [id |-> Basename(path), path |-> path, hooks |-> <<>>, active |-> FALSE]

\* Plugin.activate on a new plugin: the decorated functions of its files
\* become the hook list. k tells the function objects of one folder from
\* those of another
Activate(plugin, decls, k) ==
    [plugin EXCEPT
       !.hooks = [i \in 1..Len(decls) |->
                    CleanAndEnrichHook(
                        PillHook(decls[i].name,
                                 [uid |-> (k - 1) * (MaxHandles + 1) + i,
                                  fn |-> decls[i].fn],
                                 decls[i].priority),
                        plugin.id)],
       !.active = TRUE]

\* Plugin(...) then plugin.activate() on a folder of plugins_folder
ActivatePlugin(folder, k) == Activate(NewPlugin(FolderPath(folder.id)), folder.decls, k)

\* the keys of Morpheus.plugins (a dict kept as its list of items)
PluginKeys(ps) == {ps[i].key : i \in 1..Len(ps)}

\* self.plugins[key] = plugin, for a key not yet in the dict
StorePlugin(ps, key, plugin) ==
    Append(ps, [key |-> key, id |-> plugin.id, path |-> plugin.path,
                hooks |-> plugin.hooks, active |-> plugin.active])

\* filesystem loading that registers a folder over a plugin of the same id
RECURSIVE LoadFromFilesystemOverride(_, _, _)
LoadFromFilesystemOverride(ps, folders, k) ==
    IF k > Len(folders) THEN ps
    ELSE LET plugin == ActivatePlugin(folders[k], k)
             kept == SelectSeq(ps, LAMBDA e : e.key # plugin.id)
         IN LoadFromFilesystemOverride(StorePlugin(kept, plugin.id, plugin),
                                       folders, k + 1)

\* Morpheus._load_from_filesystem: register each folder whose id is not taken
RECURSIVE LoadFromFilesystem(_, _, _)
LoadFromFilesystem(ps, folders, k) ==
    IF k > Len(folders) THEN ps
    ELSE LET plugin == NewPlugin(FolderPath(folders[k].id))
         IN LoadFromFilesystem(
                IF plugin.id \in PluginKeys(ps) THEN ps
                ELSE StorePlugin(ps, plugin.id, ActivatePlugin(folders[k], k)),
                folders, k + 1)

\* what ep.load() gives: a factory, something not callable, or an exception
EpLoads == {"factory", "not_callable", "raises"}
\* what the factory gives: a folder path, the site-packages directory itself,
\* something that is no string, or an exception
EpReturns == {"path", "site-packages", "number", "raises"}

\* an entry point: its name, what loading it and calling its factory give,
\* the folder the factory names, whether that folder (for the site-packages
\* case: the folder named after the entry point) holds a plugin, whether the
\* plugin's requirements install, and the decorated functions of its files
EntryPoint(name, load, returns, base, folder, requirements) ==
    [name |-> name, load |-> load, returns |-> returns, base |-> base,
     folder |-> folder, requirements |-> requirements,
     decls |-> <<[name |-> "embed", priority |-> DefaultPriority, fn |-> "append"]>>]

\* the path the entry point leads to
EpPath(ep) ==
    IF ep.returns = "site-packages" THEN Path("site-packages", ep.name)
    ELSE Path("site-packages", ep.base)

\* the function objects of entry point k, apart from those of the folders
EpSlot(k) == Cardinality(PluginIds) + k

\* entry-point loading that gives up at the first entry point that fails
RECURSIVE LoadFromEntryPointsAbort(_, _, _)
LoadFromEntryPointsAbort(st, eps, k) ==
    IF k > Len(eps) THEN st
    ELSE LET ep == eps[k]
             plugin == NewPlugin(EpPath(ep))
         IN IF ep.load # "factory" \/ ep.returns \in {"number", "raises"}
               \/ ep.folder # "plugin"
            THEN st
            ELSE IF plugin.id \in PluginKeys(st.plugins)
            THEN LoadFromEntryPointsAbort(
                     [st EXCEPT !.log = Append(@, [name |-> ep.name, level |-> "debug",
                                                   outcome |-> "already_loaded"])],
                     eps, k + 1)
            ELSE IF ep.requirements # "ok"
            THEN [st EXCEPT !.plugins = StorePlugin(@, plugin.id, plugin)]
            ELSE LoadFromEntryPointsAbort(
                     [plugins |-> StorePlugin(st.plugins, plugin.id,
                                              Activate(plugin, ep.decls, EpSlot(k))),
                      log |-> Append(st.log, [name |-> ep.name, level |-> "info",
                                              outcome |-> "loaded"])],
                     eps, k + 1)

\* one pass of the loop of _load_from_entry_points over entry point k: the
\* registry after it and what was logged
LoadEntryPoint(st, ep, k) ==
    LET logged(level, outcome) ==
            [st EXCEPT !.log = Append(@, [name |-> ep.name, level |-> level,
                                          outcome |-> outcome])]
        plugin == NewPlugin(EpPath(ep))
    IN IF ep.load = "raises" THEN logged("error", "failed")
       ELSE IF ep.load = "not_callable" THEN logged("warning", "not_callable")
       ELSE IF ep.returns = "raises" THEN logged("error", "failed")
       ELSE IF ep.returns = "number" THEN logged("warning", "not_a_string")
       ELSE IF ep.returns = "site-packages" /\ ep.folder # "plugin"
            THEN logged("error", "not_located")
       ELSE IF ep.folder # "plugin" THEN logged("error", "failed")
       ELSE IF plugin.id \in PluginKeys(st.plugins)
            THEN logged("debug", "already_loaded")
       ELSE IF ep.requirements # "ok"
            THEN [plugins |-> StorePlugin(st.plugins, plugin.id, plugin),
                  log |-> Append(st.log, [name |-> ep.name, level |-> "error",
                                          outcome |-> "failed"])]
       ELSE [plugins |-> StorePlugin(st.plugins, plugin.id,
                                     Activate(plugin, ep.decls, EpSlot(k))),
             log |-> Append(st.log, [name |-> ep.name, level |-> "info",
                                     outcome |-> "loaded"])]

\* Morpheus._load_from_entry_points
RECURSIVE LoadFromEntryPoints(_, _, _)
LoadFromEntryPoints(st, eps, k) ==
    IF k > Len(eps) THEN st
    ELSE LoadFromEntryPoints(LoadEntryPoint(st, eps[k], k), eps, k + 1)

\* the handles named n in registration order: plugin registry order, then
\* each plugin's hook-list order (refresh_caches, the two nested loops)
RECURSIVE Registered(_, _)
Registered(ps, n) ==
    IF ps = <<>> THEN <<>>
    ELSE SelectSeq(Head(ps).hooks, LAMBDA h : h.name = n) \o Registered(Tail(ps), n)

\* a sort that reverses an ascending sort: equal priorities come out reversed
InsertByPriorityUnstable(sorted, h) ==
    LET k == Cardinality({i \in 1..Len(sorted) : sorted[i].priority > h.priority})
    IN SubSeq(sorted, 1, k) \o <<h>> \o SubSeq(sorted, k + 1, Len(sorted))

\* list.sort(key=priority, reverse=True) inserts one element: a stable sort
\* keeps an element after every earlier element of the same key
InsertByPriority(sorted, h) ==
    LET k == Cardinality({i \in 1..Len(sorted) : sorted[i].priority >= h.priority})
    IN SubSeq(sorted, 1, k) \o <<h>> \o SubSeq(sorted, k + 1, Len(sorted))

RECURSIVE SortByPriority(_)
SortByPriority(s) ==
    IF s = <<>> THEN <<>>
    ELSE InsertByPriority(SortByPriority(SubSeq(s, 1, Len(s) - 1)), s[Len(s)])


\* Morpheus.refresh_caches: rebuild hook name -> handles, each list sorted
RefreshCaches(ps) ==
    LET names == {n \in HookNames : Registered(ps, n) # <<>>}
    IN [n \in names |-> SortByPriority(Registered(ps, n))]

----------------------------------------------------------------------------
(* execute_hook *)

\* passing the object itself instead of a copy
NoCopy(heap, r) == [heap |-> heap, ref |-> r]

\* copy.deepcopy of the object at ref r: a new object with equal content
DeepCopy(heap, r) == [heap |-> Append(heap, heap[r]), ref |-> Len(heap) + 1]

\* hook.function(piped, extra): the plugin's function run on its arguments.
\* ret = 0 stands for a None return.
CallFunction(func, heap, a1, a2) ==
    LET fn == func.fn
        uid == func.uid
        mutated == [r \in 1..Len(heap) |->
                      IF r = a1 \/ r = a2 THEN Append(heap[r], uid) ELSE heap[r]]
    IN CASE fn = "append" ->
              [heap |-> Append(heap, Append(heap[a1], uid)),
               ret |-> Len(heap) + 1, raised |-> FALSE]
         [] fn = "empty" ->
              [heap |-> Append(heap, <<>>), ret |-> Len(heap) + 1, raised |-> FALSE]
         [] fn = "none" ->
              [heap |-> mutated, ret |-> 0, raised |-> FALSE]
         [] OTHER ->
              [heap |-> mutated, ret |-> 0, raised |-> TRUE]

\* `if dial_pad:` -- a falsy return value would not replace the piped value
IsTruthy(heap, ret) == ret # 0 /\ heap[ret] # <<>>

\* `if dial_pad is not None`
IsNotNone(heap, ret) == ret # 0

\* an except block that re-raises after logging
HandleHookErrorReraise(s, h, keys) == [s EXCEPT !.escaped = TRUE]

\* the except block: log, then look the plugin up in the registry
HandleHookError(s, h, keys) ==
    IF h.plugin_id \in keys THEN s ELSE [s EXCEPT !.escaped = TRUE]

\* one iteration of the piped loop
PipedStep(s, h, keys) ==
    LET c1 == DeepCopy(s.heap, s.phone)
        c2 == DeepCopy(c1.heap, s.extra)
        r == CallFunction(h.function, c2.heap, c1.ref, c2.ref)
        called == [s EXCEPT !.heap = r.heap,
                            !.calls = Append(@, h.function.uid),
                            !.seen = Append(@, [piped |-> c2.heap[c1.ref],
                                                extra |-> c2.heap[c2.ref],
                                                pipedRef |-> c1.ref,
                                                extraRef |-> c2.ref])]
    IN IF r.raised THEN HandleHookError(called, h, keys)
       ELSE IF IsNotNone(r.heap, r.ret) THEN [called EXCEPT !.phone = r.ret]
       ELSE called

\* one iteration of the no-argument loop
NoArgStep(s, h, keys) ==
    LET called == [s EXCEPT !.calls = Append(@, h.function.uid)]
    IN IF h.function.fn = "raise" THEN HandleHookError(called, h, keys) ELSE called

RECURSIVE RunPipeline(_, _, _, _)
RunPipeline(s, hs, keys, piped) ==
    IF hs = <<>> \/ s.escaped THEN s
    ELSE RunPipeline(IF piped THEN PipedStep(s, Head(hs), keys)
                     ELSE NoArgStep(s, Head(hs), keys),
                     Tail(hs), keys, piped)

\* Morpheus.execute_hook(name, *args): args is <<>> or <<piped, extra>>,
\* given as the contents of the caller's two objects (refs 1 and 2)
ExecuteHookResult(hs, ps, name, args) ==
    LET piped == args # <<>>
        heap0 == IF piped THEN args ELSE <<>>
        c0 == IF piped THEN DeepCopy(heap0, 1) ELSE [heap |-> heap0, ref |-> 0]
        s0 == [heap |-> c0.heap, phone |-> c0.ref, extra |-> 2,
               calls |-> <<>>, seen |-> <<>>, escaped |-> FALSE]
        registered == name \in DOMAIN hs
        s == IF registered
             THEN RunPipeline(s0, hs[name], PluginKeys(ps), piped)
             ELSE s0
    IN [name |-> name,
        args |-> args,
        handles |-> IF registered THEN hs[name] ELSE <<>>,
        calls |-> s.calls,
        seen |-> s.seen,
        escaped |-> s.escaped,
        result |-> IF s.escaped \/ ~piped THEN [none |-> TRUE, val |-> <<>>]
                   ELSE IF registered THEN [none |-> FALSE, val |-> s.heap[s.phone]]
                   ELSE [none |-> FALSE, val |-> s.heap[1]],
        argsAfter |-> IF piped THEN SubSeq(s.heap, 1, 2) ELSE <<>>]

NoCall ==
    [name |-> None, args |-> <<>>, handles |-> <<>>, calls |-> <<>>,
     seen |-> <<>>, escaped |-> FALSE, result |-> [none |-> TRUE, val |-> <<>>],
     argsAfter |-> <<>>]

----------------------------------------------------------------------------
(* Morpheus actions *)

\* a decorated function of a plugin file: @hook(name, priority=...) def ...
Decls == [name : HookNames, priority : Priorities, fn : Fns]

\* the plugin folders on disk: at most two, n hooks in all
Disks(n) ==
    {<<>>}
    \cup {<<[id |-> p, decls |-> d]>> :
              p \in PluginIds, d \in SeqsUpTo(Decls, n)}
    \cup UNION {
            {<<[id |-> pq[1], decls |-> d1], [id |-> pq[2], decls |-> d2]>> :
                 d1 \in [1..k -> Decls], d2 \in SeqsUpTo(Decls, n - k)} :
            pq \in {x \in PluginIds \X PluginIds : x[1] # x[2]}, k \in 0..n}

\* find_plugins not called yet
NoDiscovery == [ran |-> FALSE, log |-> <<>>]
\* find_plugins called with no entry point installed
NoEntryPoints == [ran |-> TRUE, log |-> <<>>]

\* Morpheus.__init__
InitMorpheus ==
    /\ plugins = <<>>
    /\ hooks = <<>>
    /\ hookCall = NoCall
    /\ discovery = NoDiscovery

\* Morpheus.find_plugins
FindPlugins ==
    LET found == LoadFromEntryPoints([plugins |-> <<>>, log |-> <<>>], entryPoints, 1)
    IN /\ plugins' = LoadFromFilesystem(found.plugins, disk, 1)
       /\ hooks' = RefreshCaches(plugins')
       /\ discovery' = [ran |-> TRUE, log |-> found.log]
       /\ UNCHANGED <<disk, entryPoints, hookCall>>

\* the caller's arguments: none, or a piped list and one trailing list
ArgLists == {<<>>, << <<0>>, <<0>> >>}

ExecuteHook ==
    \E name \in HookNames, args \in ArgLists :
        /\ hookCall' = ExecuteHookResult(hooks, plugins, name, args)
        /\ UNCHANGED <<disk, plugins, hooks, entryPoints, discovery>>

\* get_plugin(id).deactivate() on a registered, active plugin: the plugin drops
\* its hook list and becomes inactive; the dispatcher's hook index is not rebuilt
DeactivatePlugin ==
    \E i \in 1..Len(plugins) :
        /\ plugins[i].active
        /\ plugins' = [plugins EXCEPT ![i].hooks = <<>>, ![i].active = FALSE]
        /\ UNCHANGED <<disk, hooks, hookCall, entryPoints, discovery>>

\* await morpheus.refresh_caches(), called by the host
RefreshCachesCall ==
    /\ discovery.ran
    /\ hooks' = RefreshCaches(plugins)
    /\ UNCHANGED <<disk, plugins, hookCall, entryPoints, discovery>>

----------------------------------------------------------------------------
(* Properties of the hook dispatcher *)

Uids(hs) == [i \in 1..Len(hs) |-> hs[i].function.uid]
Piped(call) == call.name # None /\ call.args # <<>>
Mutates(h) == h.function.fn \in {"none", "raise"}
PosIn(s, x) == CHOOSE k \in 1..Len(s) : s[k] = x

\* what a hook function returns for the piped value v (none: None or an exception)
ReturnOf(func, v) ==
    CASE func.fn = "append" -> [none |-> FALSE, val |-> Append(v, func.uid)]
      [] func.fn = "empty" -> [none |-> FALSE, val |-> <<>>]
      [] OTHER -> [none |-> TRUE, val |-> <<>>]

RECURSIVE FoldHandles(_, _)
FoldHandles(hs, v) ==
    IF hs = <<>> THEN v
    ELSE LET r == ReturnOf(Head(hs).function, v)
         IN FoldHandles(Tail(hs), IF r.none THEN v ELSE r.val)

C2_PriorityThenRegistrationOrder ==
    /\ \A n \in DOMAIN hooks :
          LET hs == hooks[n]
              reg == Registered(plugins, n)
          IN /\ Len(hs) = Len(reg)
             /\ \A k \in 1..Len(reg) : \E i \in 1..Len(hs) : hs[i] = reg[k]
             /\ \A i, j \in 1..Len(hs) :
                   i < j =>
                     /\ hs[i].priority >= hs[j].priority
                     /\ hs[i].priority = hs[j].priority =>
                            PosIn(reg, hs[i]) < PosIn(reg, hs[j])
    /\ hookCall.handles # <<>> =>
          /\ hookCall.handles = hooks[hookCall.name]
          /\ hookCall.calls = Uids(hookCall.handles)

\* a call that ran a later-registered handle of higher priority first
C2_Witness ==
    /\ Len(hookCall.calls) = 2
    /\ hookCall.handles # Registered(plugins, hookCall.name)
    /\ hookCall.handles[1].plugin_id # hookCall.handles[2].plugin_id

\* C3: the piped result is the fold of the handles in pipeline order from the
\* first argument: a non-null return replaces the value, a null return or an
\* exception leaves it as it was.
C3_PipedResultIsFold ==
    Piped(hookCall) =>
        hookCall.result =
            [none |-> FALSE, val |-> FoldHandles(hookCall.handles, hookCall.args[1])]

\* a value replaced by the first handle survived a raising second handle
C3_Witness ==
    /\ Piped(hookCall)
    /\ Len(hookCall.handles) = 2
    /\ hookCall.handles[1].function.fn = "append"
    /\ hookCall.handles[2].function.fn = "raise"
    /\ hookCall.result.val = <<0, hookCall.handles[1].function.uid>>

\* C4: every handle gets fresh copies of the piped value and of the trailing
\* argument; what a handle writes into its arguments without returning them
\* reaches no later handle, not the result and not the caller's objects.
C4_HandlesShareNothing ==
    Piped(hookCall) =>
        /\ hookCall.argsAfter = hookCall.args
        /\ \A i \in 1..Len(hookCall.seen) :
              /\ hookCall.seen[i].piped =
                     FoldHandles(SubSeq(hookCall.handles, 1, i - 1), hookCall.args[1])
              /\ hookCall.seen[i].extra = hookCall.args[2]
              /\ hookCall.seen[i].pipedRef # hookCall.seen[i].extraRef
              /\ {hookCall.seen[i].pipedRef, hookCall.seen[i].extraRef} \cap {1, 2} = {}
              /\ \A j \in 1..Len(hookCall.seen) :
                    i # j => {hookCall.seen[i].pipedRef, hookCall.seen[i].extraRef}
                             \cap {hookCall.seen[j].pipedRef, hookCall.seen[j].extraRef} = {}
        /\ \A i \in 1..Len(hookCall.handles) :
              Mutates(hookCall.handles[i]) =>
                  \A k \in 1..Len(hookCall.result.val) :
                      hookCall.result.val[k] # hookCall.handles[i].function.uid

\* a handle wrote into its arguments, returned nothing, and another ran after it
C4_Witness ==
    /\ Piped(hookCall)
    /\ Len(hookCall.seen) = 2
    /\ hookCall.handles[1].function.fn = "none"

----------------------------------------------------------------------------
(* FluxCapacitor: store, queue and engine *)

NoId == 0           \* parent_id = None
NoTime == 0         \* finished_at = None
Msgs == {"boom", ""} \* str(exc) of what a hook raises; "" for an exception without arguments

\* dict assignment d[k] = v
Put(d, k, v) == [x \in DOMAIN d \cup {k} |-> IF x = k THEN v ELSE d[x]]

\* dict.get(k, [])
GetList(d, k) == IF k \in DOMAIN d THEN d[k] ELSE <<>>

\* Task(id, plugin_id, hook, payload_ref, parent_id): finished_at, error unset
Task(plugin_id, hook, parent_id) ==
    [plugin_id |-> plugin_id, hook |-> hook, parent_id |-> parent_id,
     finished_at |-> NoTime, error |-> None]

\* Task.done
Done(t) == t.finished_at # NoTime /\ t.error = None

\* history of one task id: queue traffic, hook invocations and their outcome,
\* the task whose hook emitted it (NoId: enqueue), pushed before persisted,
\* and the child requests its hook staged, in emission order
NewTrace(by) ==
    [pushes |-> 0, pops |-> 0, runs |-> 0, emitted |-> 0, hook |-> "none",
     wellformed |-> TRUE, by |-> by, early |-> FALSE, staged |-> <<>>]

Bump(tr, id, field) ==
    IF id \in DOMAIN tr THEN [tr EXCEPT ![id][field] = @ + 1] ELSE tr

\* InMemoryTaskStore.create_task
CreateTask(st, id, task) ==
    [st EXCEPT !.tasks = Put(@, id, task),
               !.children = IF task.parent_id # NoId
                            THEN Put(@, task.parent_id,
                                     Append(GetList(@, task.parent_id), id))
                            ELSE @]

\* InMemoryTaskQueue.push
Push(st, id) ==
    [st EXCEPT !.queue = Append(@, id),
               !.trace = IF id \in DOMAIN @
                         THEN [@ EXCEPT ![id].pushes = @ + 1,
                                        ![id].early = @ \/ id \notin DOMAIN st.tasks]
                         ELSE @]

\* a pop that leaves the id on the queue
PopKeep(st) == [st EXCEPT !.trace = Bump(@, Head(st.queue), "pops")]

\* InMemoryTaskQueue.pop on a non-empty queue
Pop(st) ==
    [st EXCEPT !.queue = Tail(@), !.trace = Bump(@, Head(st.queue), "pops")]

\* a mark_error that forgets the message
MarkErrorNoMessage(st, id, msg) ==
    [st EXCEPT !.tasks[id].finished_at = st.clock + 1,
               !.tasks[id].error = None,
               !.clock = @ + 1]

\* a mark_error that puts the task back on the queue for another attempt
MarkErrorRetry(st, id, msg) ==
    [st EXCEPT !.tasks[id].finished_at = st.clock + 1,
               !.tasks[id].error = msg,
               !.clock = @ + 1,
               !.queue = Append(@, id)]

\* a mark_done that puts the task back on the queue for another run
MarkDoneRequeue(st, id) ==
    [st EXCEPT !.tasks[id].finished_at = st.clock + 1,
               !.tasks[id].error = None,
               !.clock = @ + 1,
               !.queue = Append(@, id)]

\* a mark_done that clears the error and leaves finished_at unset
MarkDoneUnstamped(st, id) ==
    [st EXCEPT !.tasks[id].error = None, !.clock = @ + 1]

\* InMemoryTaskStore.mark_done
MarkDone(st, id) ==
    [st EXCEPT !.tasks[id].finished_at = st.clock + 1,
               !.tasks[id].error = None,
               !.clock = @ + 1]

\* InMemoryTaskStore.mark_error
MarkError(st, id, msg) ==
    [st EXCEPT !.tasks[id].finished_at = st.clock + 1,
               !.tasks[id].error = msg,
               !.clock = @ + 1]

\* uuid.uuid4(): an id no task has had
FreshId(st) ==
    [id |-> st.nextId + 1,
     st |-> [st EXCEPT !.nextId = @ + 1]]

\* resolve_hook returning None: no handle for (plugin_id, hook)
NoHook == [name |-> None]

\* plugin_manager.resolve_hook as run_once uses it: the handle registered under
\* that name for plugin_id, or none (the example's FakeMorpheus does the same)
ResolveHook(hs, plugin_id, name) ==
    LET cands == SelectSeq(GetList(hs, name), LAMBDA h : h.plugin_id = plugin_id)
    IN IF cands = <<>> THEN NoHook ELSE Head(cands)

\* FluxCapacitor.enqueue, pushing before persisting
EnqueuePushFirst(st, plugin_id, hook, parent_id) ==
    LET f == FreshId(st)
        named == [f.st EXCEPT !.trace = Put(@, f.id, NewTrace(NoId))]
    IN CreateTask(Push(named, f.id), f.id, Task(plugin_id, hook, parent_id))

\* FluxCapacitor.enqueue
EnqueueResult(st, plugin_id, hook, parent_id) ==
    LET f == FreshId(st)
        named == [f.st EXCEPT !.trace = Put(@, f.id, NewTrace(NoId))]
    IN Push(CreateTask(named, f.id, Task(plugin_id, hook, parent_id)), f.id)

\* a _collect_children that keeps only the first staged request
CollectChildrenFirstOnly(task, staged) ==
    [i \in 1..(IF staged = <<>> THEN 0 ELSE 1) |->
        IF staged[i].plugin_id = None
        THEN [staged[i] EXCEPT !.plugin_id = task.plugin_id]
        ELSE staged[i]]

\* a _collect_children that hands the requests back last-staged first
CollectChildrenReversed(task, staged) ==
    [i \in 1..Len(staged) |->
        LET r == staged[Len(staged) + 1 - i]
        IN IF r.plugin_id = None THEN [r EXCEPT !.plugin_id = task.plugin_id] ELSE r]

\* FluxCapacitor._collect_children: default plugin_id to the task's
CollectChildren(task, staged) ==
    [i \in 1..Len(staged) |->
        IF staged[i].plugin_id = None
        THEN [staged[i] EXCEPT !.plugin_id = task.plugin_id]
        ELSE staged[i]]

\* a backend call of the child loop that raises: create_task or push of the
\* at-th child (at = 0: none)
NoFault == [at |-> 0, stage |-> "none"]
FaultStages == {"create_task", "push"}
FaultMsg(stage) == IF stage = "create_task" THEN "store down" ELSE "queue down"

\* a child loop that goes on with the next child after a failed one
RECURSIVE CreateChildrenSkipFailed(_, _, _, _, _)
CreateChildrenSkipFailed(st, id, reqs, fault, k) ==
    IF reqs = <<>> THEN [st |-> st, failed |-> FALSE, msg |-> None]
    ELSE LET child == Head(reqs)
             f == FreshId(st)
             named == [f.st EXCEPT !.trace = Put(@, f.id, NewTrace(id))]
             created == CreateTask(named, f.id, Task(child.plugin_id, child.hook, id))
             rest(s, msg) ==
                 LET r == CreateChildrenSkipFailed(s, id, Tail(reqs), fault, k + 1)
                 IN [st |-> r.st, failed |-> TRUE, msg |-> msg]
         IN IF ~child.payload_ok THEN rest(f.st, "has no attribute get")
            ELSE IF fault.at = k /\ fault.stage = "create_task"
            THEN rest(f.st, FaultMsg(fault.stage))
            ELSE IF fault.at = k /\ fault.stage = "push"
            THEN rest(created, FaultMsg(fault.stage))
            ELSE CreateChildrenSkipFailed(Push(created, f.id), id, Tail(reqs), fault, k + 1)

\* the body of `for child in children:` in run_once, from the k-th child on;
\* PayloadRef.from_mapping raises on a payload_ref that is no mapping, and
\* store.create_task or queue.push raises where the backend fails
RECURSIVE CreateChildrenFrom(_, _, _, _, _)
CreateChildrenFrom(st, id, reqs, fault, k) ==
    IF reqs = <<>> THEN [st |-> st, failed |-> FALSE, msg |-> None]
    ELSE LET child == Head(reqs)
             f == FreshId(st)
             named == [f.st EXCEPT !.trace = Put(@, f.id, NewTrace(id))]
             created == CreateTask(named, f.id, Task(child.plugin_id, child.hook, id))
         IN IF ~child.payload_ok
            THEN [st |-> f.st, failed |-> TRUE, msg |-> "has no attribute get"]
            ELSE IF fault.at = k /\ fault.stage = "create_task"
            THEN [st |-> f.st, failed |-> TRUE, msg |-> FaultMsg(fault.stage)]
            ELSE IF fault.at = k /\ fault.stage = "push"
            THEN [st |-> created, failed |-> TRUE, msg |-> FaultMsg(fault.stage)]
            ELSE CreateChildrenFrom(Push(created, f.id), id, Tail(reqs), fault, k + 1)

\* the child loop on backends that do not fail
CreateChildren(st, id, reqs) == CreateChildrenFrom(st, id, reqs, NoFault, 1)

\* a run_once that drops a task whose hook cannot be resolved as it drops an
\* id without a record
RunOnceDropUnresolved(st, hs, out) ==
    IF st.queue = <<>>
    THEN [st |-> st, id |-> NoId, ret |-> FALSE, hook |-> "none"]
    ELSE
      LET id == Head(st.queue)
          s1 == Pop(st)
      IN IF id \notin DOMAIN s1.tasks
         THEN [st |-> s1, id |-> id, ret |-> TRUE, hook |-> "none"]
         ELSE
           LET task == s1.tasks[id]
               s2 == [s1 EXCEPT !.trace[id].runs = @ + 1,
                                !.trace[id].emitted = Len(out.staged),
                                !.trace[id].staged = out.staged,
                                !.trace[id].hook = IF out.raised THEN "raised" ELSE "ok",
                                !.trace[id].wellformed =
                                    \A k \in 1..Len(out.staged) : out.staged[k].payload_ok]
               made == CreateChildren(s2, id, CollectChildren(task, out.staged))
           IN IF ResolveHook(hs, task.plugin_id, task.hook) = NoHook
              THEN [st |-> s1, id |-> id, ret |-> TRUE, hook |-> "none"]
              ELSE IF out.raised
              THEN [st |-> MarkError(s2, id, out.msg),
                    id |-> id, ret |-> TRUE, hook |-> "raised"]
              ELSE IF made.failed
              THEN [st |-> MarkError(made.st, id, made.msg),
                    id |-> id, ret |-> TRUE, hook |-> "ok"]
              ELSE [st |-> MarkDone(made.st, id),
                    id |-> id, ret |-> TRUE, hook |-> "ok"]

\* FluxCapacitor.run_once; out is what the task's hook does when invoked,
\* fault the backend call of the child loop that raises
RunOnceWith(st, hs, out, fault) ==
    IF st.queue = <<>>
    THEN [st |-> st, id |-> NoId, ret |-> FALSE, hook |-> "none"]
    ELSE
      LET id == Head(st.queue)
          s1 == Pop(st)
      IN IF id \notin DOMAIN s1.tasks
         THEN [st |-> s1, id |-> id, ret |-> TRUE, hook |-> "none"]
         ELSE
           LET task == s1.tasks[id]
               s2 == [s1 EXCEPT !.trace[id].runs = @ + 1,
                                !.trace[id].emitted = Len(out.staged),
                                !.trace[id].staged = out.staged,
                                !.trace[id].hook = IF out.raised THEN "raised" ELSE "ok",
                                !.trace[id].wellformed =
                                    \A k \in 1..Len(out.staged) : out.staged[k].payload_ok]
               made == CreateChildrenFrom(s2, id, CollectChildren(task, out.staged), fault, 1)
           IN IF ResolveHook(hs, task.plugin_id, task.hook) = NoHook
              THEN [st |-> MarkError(s1, id, "Hook not found"),
                    id |-> id, ret |-> TRUE, hook |-> "none"]
              ELSE IF out.raised
              THEN [st |-> MarkError(s2, id, out.msg),
                    id |-> id, ret |-> TRUE, hook |-> "raised"]
              ELSE IF made.failed
              THEN [st |-> MarkError(made.st, id, made.msg),
                    id |-> id, ret |-> TRUE, hook |-> "ok"]
              ELSE [st |-> MarkDone(made.st, id),
                    id |-> id, ret |-> TRUE, hook |-> "ok"]

\* FluxCapacitor.run_once on backends that do not fail
RunOnceResult(st, hs, out) == RunOnceWith(st, hs, out, NoFault)

\* a walk that stops at the root's own children
WalkShallow(st, id) ==
    /\ Done(st.tasks[id])
    /\ \A k \in 1..Len(GetList(st.children, id)) : Done(st.tasks[st.children[id][k]])

\* FluxCapacitor.is_tree_done: _walk
RECURSIVE Walk(_, _)
Walk(st, id) ==
    /\ Done(st.tasks[id])
    /\ \A k \in 1..Len(GetList(st.children, id)) : Walk(st, st.children[id][k])

\* FluxCapacitor.is_tree_done
IsTreeDone(st, root) ==
    IF root \notin DOMAIN st.tasks THEN FALSE ELSE Walk(st, root)

----------------------------------------------------------------------------
(* FluxCapacitor actions *)

Engine ==
    [tasks |-> tasks, children |-> children, queue |-> queue,
     nextId |-> nextId, clock |-> clock, trace |-> trace]

SetEngine(st) ==
    /\ tasks' = st.tasks
    /\ children' = st.children
    /\ queue' = st.queue
    /\ nextId' = st.nextId
    /\ clock' = st.clock
    /\ trace' = st.trace

\* the plugin loaded in the engine's host: both task hooks belong to "a"
FluxDisk ==
    <<[id |-> "a",
       decls |-> <<[name |-> "split", priority |-> DefaultPriority, fn |-> "none"],
                   [name |-> "embed", priority |-> DefaultPriority, fn |-> "none"]>>]>>

\* InMemoryTaskStore.__init__, InMemoryTaskQueue.__init__
InitFlux ==
    /\ tasks = <<>>
    /\ children = <<>>
    /\ queue = <<>>
    /\ nextId = 0
    /\ clock = 0
    /\ lastRun = [op |-> "none", id |-> NoId, ret |-> FALSE, hook |-> "none",
                  msg |-> None]
    /\ trace = <<>>

\* a child request staged by a hook: TaskChildRequest(hook, plugin_id, payload_ref)
ChildReqs == [hook : {"embed"}, plugin_id : {None, "b"}, payload_ok : BOOLEAN]

Enqueue ==
    \E plugin_id \in PluginIds, parent_id \in {NoId} \cup DOMAIN tasks :
        /\ nextId < MaxTasks
        /\ SetEngine(EnqueueResult(Engine, plugin_id, "split", parent_id))
        /\ lastRun' = [op |-> "enqueue", id |-> nextId + 1, ret |-> TRUE,
                       hook |-> "none", msg |-> None]

RunOnce ==
    \E raised \in BOOLEAN, msg \in Msgs, n \in 0..MaxEmit :
        \E staged \in [1..n -> ChildReqs] :
            LET r == RunOnceResult(Engine, hooks,
                                   [raised |-> raised, msg |-> msg, staged |-> staged])
            IN /\ nextId + n <= MaxTasks
               /\ ~raised => msg = "boom"
               \* what a raising hook staged is dropped unread: vary its number only
               /\ raised => \A i \in 1..n : staged[i].plugin_id = None /\ staged[i].payload_ok
               /\ SetEngine(r.st)
               /\ lastRun' = [op |-> "run_once", id |-> r.id, ret |-> r.ret,
                              hook |-> r.hook,
                              msg |-> IF r.hook = "raised" THEN msg ELSE None]

\* ids of tasks the store does not hold (written by another store, or lost)
LostIds == {-1}

\* a client of the queue: get_queue().push(task_id) for an id without a record,
\* one such id in the queue at a time
PushLost ==
    \E id \in LostIds :
        /\ \A i \in 1..Len(queue) : queue[i] \notin LostIds
        /\ SetEngine(Push(Engine, id))
        /\ lastRun' = [op |-> "push", id |-> id, ret |-> TRUE, hook |-> "none",
                       msg |-> None]

\* run_once on a store or queue whose at-th call of the child loop raises
RunOnceFaulty ==
    \E n \in 1..MaxEmit, at \in 1..MaxEmit, stage \in FaultStages :
        \E staged \in [1..n -> ChildReqs] :
            LET fault == [at |-> at, stage |-> stage]
                r == RunOnceWith(Engine, hooks,
                                 [raised |-> FALSE, msg |-> "boom", staged |-> staged],
                                 fault)
            IN /\ nextId + n <= MaxTasks
               /\ at <= n
               /\ SetEngine(r.st)
               /\ lastRun' = [op |-> "run_once", id |-> r.id, ret |-> r.ret,
                              hook |-> r.hook, msg |-> None, fault |-> fault]

----------------------------------------------------------------------------
(* Properties of the sync engine *)

Ids == DOMAIN tasks
InQueue(id) == \E i \in 1..Len(queue) : queue[i] = id
Finished(id) == tasks[id].finished_at # NoTime

RECURSIVE Ancestors(_)
Ancestors(id) ==
    IF id \notin Ids \/ tasks[id].parent_id = NoId THEN {}
    ELSE {tasks[id].parent_id} \cup Ancestors(tasks[id].parent_id)

\* the transitive descendants of r by parent_id
Descendants(r) == {t \in Ids : r \in Ancestors(t)}
ChildrenOf(r) == {t \in Ids : tasks[t].parent_id = r}
Siblings(id) == {t \in Ids \ {id} : tasks[id].parent_id # NoId
                                   /\ tasks[t].parent_id = tasks[id].parent_id}

\* C5: every id on the queue has a store record, no id was pushed before its
\* record was persisted (enqueue and child creation alike), and every child
\* record carries the id of the task whose hook emitted it as parent_id.
C5_PersistedBeforeQueued ==
    /\ \A i \in 1..Len(queue) : queue[i] \in Ids
    /\ \A id \in DOMAIN trace :
          /\ ~trace[id].early
          /\ trace[id].pushes > 0 => id \in Ids
          /\ trace[id].by # NoId => id \in Ids /\ tasks[id].parent_id = trace[id].by

\* a child emitted by a hook is waiting on the queue
C5_Witness ==
    \E i \in 1..Len(queue) : trace[queue[i]].by # NoId

\* C6: under any sequence of enqueue and run_once calls the hook of a task is
\* invoked at most once: an id is pushed at most once, popped at most once and
\* is not on the queue after it was popped.
C6_AtMostOneHookPerTask ==
    \A id \in DOMAIN trace :
        /\ trace[id].runs <= 1
        /\ trace[id].pushes <= 1
        /\ trace[id].pops <= 1
        /\ trace[id].pops = 1 => ~InQueue(id)
        /\ Cardinality({i \in 1..Len(queue) : queue[i] = id}) <= 1

\* a hook has run and run_once was called again on an empty queue
C6_Witness ==
    /\ \E id \in DOMAIN trace : trace[id].runs = 1
    /\ lastRun.op = "run_once" /\ ~lastRun.ret

\* C7: once a task is marked done or errored, its finished_at and error never
\* change under later enqueue and run_once calls.
C7_TerminalFieldsImmutable ==
    [][\A id \in Ids :
          Finished(id) =>
              /\ id \in DOMAIN tasks'
              /\ tasks'[id].finished_at = tasks[id].finished_at
              /\ tasks'[id].error = tasks[id].error]_vars

\* an errored task is still errored after a later task was marked
C7_Witness ==
    \E id \in Ids :
        /\ Finished(id)
        /\ tasks[id].error # None
        /\ tasks[id].finished_at < clock

\* C8: when a task's hook raises, run_once marks that task errored with the
\* exception message and reports progress; no other record changes, the ids
\* behind it stay queued in order, and once the queue is drained the siblings
\* of an errored task have been executed.
C8_HookErrorIsolated ==
    /\ [][(lastRun'.op = "run_once" /\ lastRun'.hook = "raised") =>
            /\ lastRun'.ret
            /\ queue # <<>> /\ lastRun'.id = Head(queue)
            /\ queue' = Tail(queue)
            /\ DOMAIN tasks' = Ids
            /\ \A t \in Ids \ {lastRun'.id} : tasks'[t] = tasks[t]
            /\ tasks'[lastRun'.id].error = lastRun'.msg
            /\ tasks'[lastRun'.id].finished_at # NoTime
            /\ children' = children]_vars
    /\ [](queue = <<>> =>
            \A id \in Ids :
                (Finished(id) /\ tasks[id].error # None) =>
                    \A t \in Siblings(id) : Finished(t) /\ trace[t].pops = 1)

\* a hook just raised while a sibling of its task was waiting on the queue
C8_Witness ==
    /\ lastRun.op = "run_once" /\ lastRun.hook = "raised"
    /\ \E t \in Siblings(lastRun.id) : InQueue(t)

\* C9: is_tree_done(R) is true exactly when R is in the store and R and all
\* its transitive descendants by parent_id are finished without error; it is
\* false for an id the store does not hold.
C9_TreeDoneIffAllDescendantsDone ==
    \A r \in 1..(nextId + 1) :
        IsTreeDone(Engine, r) =
            (/\ r \in Ids
             /\ \A t \in {r} \cup Descendants(r) :
                   tasks[t].finished_at # NoTime /\ tasks[t].error = None)

\* a done root whose children are done and whose grandchild is not finished
C9_Witness ==
    \E r \in Ids :
        /\ Done(tasks[r])
        /\ ChildrenOf(r) # {}
        /\ \A t \in ChildrenOf(r) : Done(tasks[t])
        /\ \E t \in Descendants(r) : ~Finished(t)

\* the tree of root r ran to the end with every hook succeeding: run_once
\* reported idle, every task of the tree had its hook invoked without an
\* exception on well-formed child requests, and only hooks added tasks to it
DrainedOk(r) ==
    /\ r \in Ids /\ tasks[r].parent_id = NoId
    /\ lastRun.op = "run_once" /\ ~lastRun.ret
    /\ \A t \in {r} \cup Descendants(r) :
          /\ trace[t].hook = "ok"
          /\ trace[t].wellformed
          /\ t # r => trace[t].by = tasks[t].parent_id

\* C10: if the root's hook emitted n children and every hook of the tree
\* succeeded, then after run_once reports idle the root is done, exactly n
\* tasks have the root as parent, all are done, and is_tree_done(root) holds.
C10_FanOutDrained ==
    \A r \in Ids :
        DrainedOk(r) =>
            /\ Done(tasks[r])
            /\ Cardinality(ChildrenOf(r)) = trace[r].emitted
            /\ \A t \in ChildrenOf(r) : Done(tasks[t])
            /\ IsTreeDone(Engine, r)

\* a root that emitted two children has been drained
C10_Witness ==
    \E r \in Ids : DrainedOk(r) /\ trace[r].emitted = 2

\* the children of p made by its hook, in the order the store persisted them
HookChildren(p) == SelectSeq(GetList(children, p), LAMBDA t : trace[t].by = p)

\* position of id on the queue, 0 when it is not queued
QueuePos(id) ==
    IF InQueue(id) THEN CHOOSE i \in 1..Len(queue) : queue[i] = id ELSE 0

\* C11: the children a hook staged are persisted in emission order (the i-th
\* child record is the i-th staged request), pushed in that order, and with
\* the FIFO queue executed in that order: a later sibling is never popped or
\* finished before an earlier one.
C11_SiblingsInEmissionOrder ==
    \A p \in Ids :
        LET kids == HookChildren(p)
            req == trace[p].staged
        IN /\ Len(kids) <= Len(req)
           /\ \A i \in 1..Len(kids) :
                 /\ tasks[kids[i]].hook = req[i].hook
                 /\ tasks[kids[i]].plugin_id =
                        IF req[i].plugin_id = None THEN tasks[p].plugin_id
                        ELSE req[i].plugin_id
           /\ \A i, j \in 1..Len(kids) :
                 i < j =>
                   /\ InQueue(kids[i]) => InQueue(kids[j])
                                          /\ QueuePos(kids[i]) < QueuePos(kids[j])
                   /\ Finished(kids[j]) =>
                        /\ Finished(kids[i])
                        /\ tasks[kids[i]].finished_at < tasks[kids[j]].finished_at

\* two siblings staged with different plugin ids have both been executed
C11_Witness ==
    \E p \in Ids :
        /\ Len(HookChildren(p)) = 2
        /\ trace[p].staged[1].plugin_id # trace[p].staged[2].plugin_id
        /\ \A i \in 1..2 : Finished(HookChildren(p)[i])

----------------------------------------------------------------------------
(* Async jobs: the job store and its status view *)

Statuses == {"PENDING", "RUNNING", "DONE", "FAILED"}
InputIds == {"in1"}

\* AsyncJob; metadata is kept as its "error" entry only
AsyncJob(job_id, parent_job_id, root_input_id, plugin_id, hook) ==
    [job_id |-> job_id, parent_job_id |-> parent_job_id,
     root_input_id |-> root_input_id, plugin_id |-> plugin_id, hook |-> hook,
     status |-> "PENDING", error |-> None]

\* InMemoryJobStore.__init__
EmptyJobStore == [jobs |-> <<>>, children |-> <<>>, parents |-> <<>>, roots |-> <<>>]

\* InMemoryJobStore._persist_job
PersistJob(store, job) ==
    IF job.parent_job_id # NoId
    THEN [store EXCEPT
            !.jobs = Put(@, job.job_id, job),
            !.parents = Put(@, job.job_id, job.parent_job_id),
            !.children = Put(@, job.parent_job_id,
                             Append(GetList(@, job.parent_job_id), job.job_id))]
    ELSE [store EXCEPT
            !.jobs = Put(@, job.job_id, job),
            !.roots = Put(@, job.root_input_id,
                          Append(GetList(@, job.root_input_id), job.job_id))]

\* BaseJobStore.create_job: job_id or a fresh uuid, status PENDING, persisted.
\* ag is the store with the id generator.
CreateJob(ag, plugin_id, hook, root_input_id, parent_job_id, job_id) ==
    LET fresh == job_id = NoId
        job == AsyncJob(IF fresh THEN ag.nextJob + 1 ELSE job_id,
                        parent_job_id, root_input_id, plugin_id, hook)
    IN [ag |-> [ag EXCEPT !.store = PersistJob(@, job),
                          !.nextJob = IF fresh THEN @ + 1 ELSE @],
        job |-> job]

\* InMemoryJobStore.mark_status: `if error:` skips None and ""
MarkStatus(store, job_id, status, error) ==
    [store EXCEPT !.jobs[job_id].status = status,
                  !.jobs[job_id].error = IF error \in {None, ""} THEN @ ELSE error]

\* BaseJobStore.mark_running / mark_done / mark_failed
MarkRunning(store, job_id) == MarkStatus(store, job_id, "RUNNING", None)
MarkJobDone(store, job_id) == MarkStatus(store, job_id, "DONE", None)
MarkFailed(store, job_id, reason) == MarkStatus(store, job_id, "FAILED", reason)

\* BaseJobStore._aggregate_status over the children's aggregated statuses
AggregateStatus(status, childStatuses) ==
    IF \E i \in 1..Len(childStatuses) : childStatuses[i] = "FAILED" THEN "FAILED"
    ELSE IF \E i \in 1..Len(childStatuses) : childStatuses[i] \in {"RUNNING", "PENDING"}
    THEN "RUNNING"
    ELSE IF status = "FAILED" THEN "FAILED"
    ELSE IF status # "DONE" THEN status
    ELSE IF \E i \in 1..Len(childStatuses) : childStatuses[i] # "DONE" THEN "RUNNING"
    ELSE "DONE"

\* progress is a float with four decimals: kept as its number of ten-thousandths
Scale == 10000

\* a round that cuts the digits after the fourth
Truncate4(done, total) == (done * Scale) \div total

\* round(done / total, 4): to the nearest ten-thousandth, ties to even
Round4(done, total) ==
    LET q == (done * Scale) \div total
        r == (done * Scale) % total
    IN IF 2 * r < total THEN q
       ELSE IF 2 * r > total THEN q + 1
       ELSE IF q % 2 = 0 THEN q ELSE q + 1

RECURSIVE SumOf(_, _)
SumOf(views, field) ==
    IF views = <<>> THEN 0 ELSE Head(views)[field] + SumOf(Tail(views), field)

\* BaseJobStore.get_status_view: _build_view, with its leaf counts
RECURSIVE BuildView(_, _)
BuildView(store, job_id) ==
    LET job == store.jobs[job_id]
        child_ids == GetList(store.children, job_id)
        built == [i \in 1..Len(child_ids) |-> BuildView(store, child_ids[i])]
        leaves_total == IF child_ids = <<>> THEN 1 ELSE SumOf(built, "total")
        leaves_done == IF child_ids = <<>>
                       THEN (IF job.status = "DONE" THEN 1 ELSE 0)
                       ELSE SumOf(built, "done")
    IN [job_id |-> job.job_id,
        status |-> AggregateStatus(job.status,
                                   [i \in 1..Len(built) |-> built[i].status]),
        children |-> [i \in 1..Len(built) |->
                         [job_id |-> built[i].job_id, status |-> built[i].status,
                          progress |-> built[i].progress]],
        progress |-> IF leaves_total = 0
                     THEN (IF job.status = "DONE" THEN Scale ELSE 0)
                     ELSE Round4(leaves_done, leaves_total),
        total |-> leaves_total,
        done |-> leaves_done]

\* BaseJobStore.get_status_view
GetStatusView(store, job_id) == BuildView(store, job_id)

\* the store together with its id generator
Agent == [store |-> jobStore, nextJob |-> nextJob]

SetAgent(ag) ==
    /\ jobStore' = ag.store
    /\ nextJob' = ag.nextJob

InitJobs ==
    /\ jobStore = EmptyJobStore
    /\ nextJob = 0
    /\ mq = <<>>
    /\ admitted = 0

\* a client of the store: create_job for a root or under an existing job
StoreCreateJob ==
    \E parent \in {NoId} \cup DOMAIN jobStore.jobs :
        /\ nextJob < MaxJobs
        /\ SetAgent(CreateJob(Agent, "a", "split", "in1", parent, NoId).ag)
        /\ UNCHANGED <<mq, workers, admitted>>

\* a client of the store: mark_running / mark_done / mark_failed on a job
\* that has not finished yet
StoreMark ==
    \E id \in DOMAIN jobStore.jobs, status \in Statuses \ {"PENDING"} :
        /\ jobStore.jobs[id].status \in {"PENDING", "RUNNING"}
        /\ jobStore.jobs[id].status # status
        /\ jobStore' = (CASE status = "RUNNING" -> MarkRunning(jobStore, id)
                          [] status = "DONE" -> MarkJobDone(jobStore, id)
                          [] OTHER -> MarkFailed(jobStore, id, "boom"))
        /\ UNCHANGED <<nextJob, mq, workers, admitted>>

----------------------------------------------------------------------------
(* Async jobs: the queue, hook results and the AgentWorker *)

WorkerIds == {"w1", "w2"}
ExplicitJobIds == {-1}      \* a job_id chosen by a hook instead of a uuid

\* AsyncJob.message
Message(job) ==
    [job_id |-> job.job_id, parent_job_id |-> job.parent_job_id,
     root_input_id |-> job.root_input_id, plugin_id |-> job.plugin_id,
     hook |-> job.hook]

NoMessage == [job_id |-> NoId]

\* InMemoryQueue.enqueue
QueueEnqueue(q, job) ==
    Put(q, job.plugin_id, Append(GetList(q, job.plugin_id), Message(job)))

\* InMemoryQueue.dequeue: the oldest message of the plugin's queue, or None
\* once the timeout has passed
QueueDequeue(q, plugin_id) ==
    IF GetList(q, plugin_id) = <<>>
    THEN [q |-> q, message |-> NoMessage]
    ELSE [q |-> [q EXCEPT ![plugin_id] = Tail(@)], message |-> Head(q[plugin_id])]

\* ChildJobRequest objects a hook can hold (obj is the object's identity), and
\* the other things it can return: a dict with a "hook" key, anything else
Requests ==
    {[obj |-> 1, form |-> "request", hook |-> "embed", plugin_id |-> None, job_id |-> NoId]}
    \cup {[obj |-> 2, form |-> "request", hook |-> "embed", plugin_id |-> None, job_id |-> j] :
             j \in ExplicitJobIds}
Returnables ==
    Requests
    \cup {[obj |-> 3, form |-> "dict", hook |-> "embed", plugin_id |-> None, job_id |-> NoId],
          [obj |-> 4, form |-> "other", hook |-> None, plugin_id |-> None, job_id |-> NoId]}

\* what a hook returns: None, an AgentHookResult, one ChildJobRequest, one
\* dict, or a sequence
HookResults ==
    {[kind |-> "none", items |-> <<>>]}
    \cup [kind : {"wrapper"}, items : SeqsUpTo(Requests, MaxEmit)]
    \cup [kind : {"request"}, items : [1..1 -> Requests]]
    \cup [kind : {"dict"}, items : [1..1 -> Returnables \ Requests]]
    \cup [kind : {"sequence"}, items : SeqsUpTo(Returnables, MaxEmit)]

\* AgentWorker._normalize_child_request: a new ChildJobRequest from a dict
NormalizeChildRequest(item, job) ==
    [item EXCEPT !.form = "request",
                 !.plugin_id = IF @ = None THEN job.plugin_id ELSE @]

\* AgentWorker._collect_children: the staged requests, then what the result
\* carries, plugin_id defaulted to the job's
CollectAgentChildren(staged, result, job) ==
    LET returned ==
            CASE result.kind \in {"wrapper", "request"} -> result.items
              [] result.kind = "dict" ->
                    [i \in 1..Len(SelectSeq(result.items, LAMBDA x : x.form = "dict")) |->
                        NormalizeChildRequest(
                            SelectSeq(result.items, LAMBDA x : x.form = "dict")[i], job)]
              [] result.kind = "sequence" ->
                    [i \in 1..Len(SelectSeq(result.items, LAMBDA x : x.form # "other")) |->
                        NormalizeChildRequest(
                            SelectSeq(result.items, LAMBDA x : x.form # "other")[i], job)]
              [] OTHER -> <<>>
        requests == staged \o returned
    IN [i \in 1..Len(requests) |->
           IF requests[i].plugin_id = None
           THEN [requests[i] EXCEPT !.plugin_id = job.plugin_id] ELSE requests[i]]

\* a restore that never looks the job up
AlwaysCreateJob(ag, message) ==
    LET made == CreateJob(ag, message.plugin_id, message.hook, message.root_input_id,
                          message.parent_job_id, message.job_id)
    IN [ag |-> made.ag, job |-> made.job, restored |-> TRUE]

\* AgentWorker._load_or_restore_job
LoadOrRestoreJob(ag, message) ==
    IF message.job_id # NoId /\ message.job_id \in DOMAIN ag.store.jobs
    THEN [ag |-> ag, job |-> ag.store.jobs[message.job_id], restored |-> FALSE]
    ELSE LET made == CreateJob(ag, message.plugin_id, message.hook,
                               message.root_input_id, message.parent_job_id,
                               message.job_id)
         IN [ag |-> made.ag, job |-> made.job, restored |-> TRUE]

\* AgentWorker.__init__: not started; job, todo, made, sent are the locals of
\* _handle_message (the job, the collected requests, created_children, and
\* how many of them enqueue_many has put on the queue)
NoJob == [job_id |-> NoId]
NewWorker(plugin_id) ==
    [plugin_id |-> plugin_id, pc |-> "loop", stop |-> FALSE, message |-> NoMessage,
     job |-> NoJob, restored |-> FALSE, todo |-> <<>>, made |-> <<>>, sent |-> 0,
     err |-> None]

\* back at `while not self._stop_event.is_set()`
ToLoop(w) ==
    [w EXCEPT !.pc = "loop", !.message = NoMessage, !.job = NoJob,
              !.restored = FALSE, !.todo = <<>>, !.made = <<>>, !.sent = 0,
              !.err = None]

\* a loop head that never looks at the stop event
LoopHeadDeaf(w) == [w EXCEPT !.pc = "dequeue"]

\* run_forever: the loop condition
LoopHead(w) == IF w.stop THEN [w EXCEPT !.pc = "returned"] ELSE [w EXCEPT !.pc = "dequeue"]

\* run_forever: await self.queue.dequeue(...); None means poll again
DequeueStep(ag, w) ==
    LET got == QueueDequeue(ag.mq, w.plugin_id)
    IN [ag |-> [ag EXCEPT !.mq = got.q],
        w |-> IF got.message = NoMessage THEN ToLoop(w)
              ELSE [w EXCEPT !.pc = "load", !.message = got.message]]

\* _handle_message: job = await self._load_or_restore_job(message)
LoadStep(ag, w) ==
    LET r == LoadOrRestoreJob([store |-> ag.store, nextJob |-> ag.nextJob], w.message)
    IN [ag |-> [ag EXCEPT !.store = r.ag.store, !.nextJob = r.ag.nextJob],
        w |-> [w EXCEPT !.pc = "mark_running", !.job = r.job, !.restored = r.restored]]

\* _handle_message: mark_running, then resolve the hook
MarkRunningStep(ag, hs, w) ==
    [ag |-> [ag EXCEPT !.store = MarkRunning(@, w.job.job_id)],
     w |-> [w EXCEPT !.pc = IF ResolveHook(hs, w.job.plugin_id, w.job.hook) = NoHook
                            THEN "nohook" ELSE "hook"]]

\* _handle_message: mark_failed(reason="Hook not found"); return
NoHookStep(ag, w) ==
    [ag |-> [ag EXCEPT !.store = MarkFailed(@, w.job.job_id, "Hook not found")],
     w |-> ToLoop(w)]

\* a hook step that collects what was staged whether or not the hook raised
HookStepCollectAlways(ag, w, out) ==
    LET collected == CollectAgentChildren(out.staged, out.result, w.job)
    IN [ag |-> [ag EXCEPT !.admitted = @ + Len(collected)],
        w |-> [w EXCEPT !.pc = IF collected = <<>>
                               THEN (IF out.raised THEN "failed" ELSE "mark_done")
                               ELSE "create",
                        !.err = IF out.raised THEN out.msg ELSE @,
                        !.todo = collected]]

\* _handle_message: the hook returns or raises; out is what it did
HookStep(ag, w, out) ==
    LET collected == CollectAgentChildren(out.staged, out.result, w.job)
    IN [ag |-> [ag EXCEPT !.admitted = IF out.raised THEN @ ELSE @ + Len(collected)],
        w |-> IF out.raised THEN [w EXCEPT !.pc = "failed", !.err = out.msg]
              ELSE [w EXCEPT !.pc = IF collected = <<>> THEN "mark_done" ELSE "create",
                             !.todo = collected]]

\* a creation loop that puts each child on the queue as soon as it is created
CreateAndEnqueueStep(ag, w) ==
    LET child == w.todo[Len(w.made) + 1]
        r == CreateJob([store |-> ag.store, nextJob |-> ag.nextJob],
                       child.plugin_id, child.hook, w.job.root_input_id,
                       w.job.job_id, child.job_id)
        made == Append(w.made, r.job)
    IN [ag |-> [ag EXCEPT !.store = r.ag.store, !.nextJob = r.ag.nextJob,
                          !.mq = QueueEnqueue(@, r.job)],
        w |-> [w EXCEPT !.made = made, !.sent = @ + 1,
                        !.pc = IF Len(made) = Len(w.todo) THEN "mark_done" ELSE "create"]]

\* _handle_message: one create_job of the created_children comprehension
CreateStep(ag, w) ==
    LET child == w.todo[Len(w.made) + 1]
        r == CreateJob([store |-> ag.store, nextJob |-> ag.nextJob],
                       child.plugin_id, child.hook, w.job.root_input_id,
                       w.job.job_id, child.job_id)
        made == Append(w.made, r.job)
    IN [ag |-> [ag EXCEPT !.store = r.ag.store, !.nextJob = r.ag.nextJob],
        w |-> [w EXCEPT !.made = made,
                        !.pc = IF Len(made) = Len(w.todo) THEN "enqueue" ELSE "create"]]

\* enqueue_many: one enqueue of the gathered batch, in list order
EnqueueStep(ag, w) ==
    [ag |-> [ag EXCEPT !.mq = QueueEnqueue(@, w.made[w.sent + 1])],
     w |-> [w EXCEPT !.sent = @ + 1,
                     !.pc = IF w.sent + 1 = Len(w.made) THEN "mark_done" ELSE "enqueue"]]

\* _handle_message: mark_done; the ghost of the handled job is dropped afterwards
MarkDoneStep(ag, w) ==
    [ag |-> [ag EXCEPT !.store = MarkJobDone(@, w.job.job_id)], w |-> ToLoop(w)]

\* _handle_message: except Exception -> mark_failed(reason=str(exc))
FailedStep(ag, w) ==
    [ag |-> [ag EXCEPT !.store = MarkFailed(@, w.job.job_id, w.err)], w |-> ToLoop(w)]

\* one step of a worker, between two awaits
WorkerStep(ag, hs, w, out) ==
    CASE w.pc = "loop" -> [ag |-> ag, w |-> LoopHead(w)]
      [] w.pc = "dequeue" -> DequeueStep(ag, w)
      [] w.pc = "load" -> LoadStep(ag, w)
      [] w.pc = "mark_running" -> MarkRunningStep(ag, hs, w)
      [] w.pc = "nohook" -> NoHookStep(ag, w)
      [] w.pc = "hook" -> HookStep(ag, w, out)
      [] w.pc = "create" -> CreateStep(ag, w)
      [] w.pc = "enqueue" -> EnqueueStep(ag, w)
      [] w.pc = "mark_done" -> MarkDoneStep(ag, w)
      [] w.pc = "failed" -> FailedStep(ag, w)

\* what a hook does when invoked
NoOutcome == [raised |-> FALSE, msg |-> None, staged |-> <<>>,
              result |-> [kind |-> "none", items |-> <<>>]]
\* a hook raises (what it staged is dropped unread), or stages and returns
\* at most room requests in all
Outcomes(room) ==
    {[raised |-> TRUE, msg |-> m, staged |-> <<>>,
      result |-> [kind |-> "none", items |-> <<>>]] : m \in Msgs}
    \cup {o \in [raised : {FALSE}, msg : {None}, staged : SeqsUpTo(Requests, room),
                  result : HookResults] :
             Len(o.staged) + Len(o.result.items) <= room}

AgentState ==
    [store |-> jobStore, nextJob |-> nextJob, mq |-> mq, admitted |-> admitted]

SetAgentState(ag) ==
    /\ jobStore' = ag.store
    /\ nextJob' = ag.nextJob
    /\ mq' = ag.mq
    /\ admitted' = ag.admitted

\* workers of plugin "a" on one queue and one store
StartWorkers(ids) == [w \in ids |-> NewWorker("a")]

\* a client: create_job for a root, then queue.enqueue(root)
Submit ==
    /\ admitted < MaxAdmit
    /\ LET r == CreateJob(Agent, "a", "split", "in1", NoId, NoId)
       IN /\ jobStore' = r.ag.store
          /\ nextJob' = r.ag.nextJob
          /\ mq' = QueueEnqueue(mq, r.job)
    /\ admitted' = admitted + 1
    /\ UNCHANGED workers

\* a client: a message for a job the store does not hold (the store was
\* lost, or the producer never wrote to it)
EnqueueUnstored ==
    \E hook \in {"split", "gone"} :
        /\ admitted < MaxAdmit
        /\ mq' = QueueEnqueue(mq, AsyncJob(nextJob + 1, NoId, "in1", "a", hook))
        /\ nextJob' = nextJob + 1
        /\ admitted' = admitted + 1
        /\ UNCHANGED <<jobStore, workers>>

\* a client or an at-least-once queue: queue.enqueue(job) for a stored job,
\* whatever has become of it
Redeliver ==
    \E id \in DOMAIN jobStore.jobs :
        /\ admitted < MaxAdmit
        /\ mq' = QueueEnqueue(mq, jobStore.jobs[id])
        /\ admitted' = admitted + 1
        /\ UNCHANGED <<jobStore, nextJob, workers>>

\* AgentWorker.stop
Stop ==
    \E id \in DOMAIN workers :
        /\ ~workers[id].stop
        /\ workers' = [workers EXCEPT ![id].stop = TRUE]
        /\ UNCHANGED <<jobStore, nextJob, mq, admitted>>

\* AgentWorker.run_forever, one step of worker id
Work(id) ==
    /\ workers[id].pc \notin {"returned", "cancelled"}
    /\ \E out \in IF workers[id].pc = "hook"
                  THEN Outcomes(IF MaxAdmit - admitted < MaxEmit
                                THEN MaxAdmit - admitted ELSE MaxEmit)
                  ELSE {NoOutcome} :
        /\ LET r == WorkerStep(AgentState, hooks, workers[id], out)
           IN /\ SetAgentState(r.ag)
              /\ workers' = [workers EXCEPT ![id] = r.w]

\* the awaits at which run_forever is suspended: the timed dequeue and the hook
\* (the in-memory store and queue never yield)
CancelPoints == {"dequeue", "hook"}

\* the owner of the worker task cancels it: CancelledError is raised at the
\* await; it is not an Exception, so `except Exception` of _handle_message lets
\* it pass and run_forever re-raises it
Cancel(id) ==
    /\ workers[id].pc \in CancelPoints
    /\ workers' = [workers EXCEPT ![id].pc = "cancelled"]
    /\ UNCHANGED <<jobStore, nextJob, mq, admitted>>

\* a hook that stages requests on its context and then raises; what it staged
\* is never read, so only the number of requests varies
StagedThenRaised(room) ==
    {[raised |-> TRUE, msg |-> m,
      staged |-> [i \in 1..n |-> CHOOSE r \in Requests : r.job_id = NoId],
      result |-> [kind |-> "none", items |-> <<>>]] :
         m \in Msgs, n \in 1..room}

\* the worker with a note of what the hook of its job did: whether it raised,
\* and after how many staged requests
Noted(w, job_id, out) ==
    [f \in DOMAIN w \cup {"hookOut"} |->
        IF f = "hookOut"
        THEN [job_id |-> job_id, raised |-> out.raised,
              staged |-> IF out.raised THEN Len(out.staged) ELSE 0]
        ELSE w[f]]

\* AgentWorker.run_forever, one step of worker id, its hooks free to raise
\* after staging
WorkNoted(id) ==
    /\ workers[id].pc \notin {"returned", "cancelled"}
    /\ \E out \in IF workers[id].pc = "hook"
                  THEN Outcomes(IF MaxAdmit - admitted < MaxEmit
                                THEN MaxAdmit - admitted ELSE MaxEmit)
                       \cup StagedThenRaised(MaxEmit)
                  ELSE {NoOutcome} :
        /\ LET r == WorkerStep(AgentState, hooks, workers[id], out)
           IN /\ SetAgentState(r.ag)
              /\ workers' = [workers EXCEPT
                                ![id] = IF workers[id].pc = "hook"
                                        THEN Noted(r.w, workers[id].job.job_id, out)
                                        ELSE r.w]

----------------------------------------------------------------------------
(* Properties of the status view *)

JobIds == DOMAIN jobStore.jobs
StatusOf(id) == jobStore.jobs[id].status

RECURSIVE JobAncestors(_)
JobAncestors(id) ==
    IF id \notin JobIds \/ jobStore.jobs[id].parent_job_id = NoId THEN {}
    ELSE {jobStore.jobs[id].parent_job_id}
         \cup JobAncestors(jobStore.jobs[id].parent_job_id)

\* the jobs strictly below n, and the leaves of n's subtree (n itself when childless)
JobDescendants(n) == {d \in JobIds : n \in JobAncestors(d)}
JobLeaves(n) ==
    {d \in JobDescendants(n) \cup {n} : ~\E c \in JobIds : jobStore.jobs[c].parent_job_id = d}
DoneLeaves(n) == {d \in JobLeaves(n) : StatusOf(d) = "DONE"}

\* the status the aggregation rule gives node n, read off the stored statuses
RuleStatus(n) ==
    IF \E d \in JobDescendants(n) : StatusOf(d) = "FAILED" THEN "FAILED"
    ELSE IF \/ \E d \in JobDescendants(n) : StatusOf(d) \in {"PENDING", "RUNNING"}
            \/ StatusOf(n) = "DONE" /\ \E d \in JobDescendants(n) : StatusOf(d) # "DONE"
    THEN "RUNNING"
    ELSE StatusOf(n)

\* C17: for every node, get_status_view reports FAILED if any descendant has
\* failed, else RUNNING if any descendant is pending or running (or the node
\* is DONE with a descendant that is not), else the node's own status.
C17_StatusFollowsRule ==
    \A n \in JobIds : GetStatusView(jobStore, n).status = RuleStatus(n)

\* C18 as stated: progress is exactly done leaves divided by leaves.
C18_ProgressIsExactRatio ==
    \A n \in JobIds :
        GetStatusView(jobStore, n).progress * Cardinality(JobLeaves(n))
            = Cardinality(DoneLeaves(n)) * Scale

\* C18: for every node, get_status_view reports the number of DONE leaves of
\* its subtree divided by the number of its leaves, rounded to four decimal
\* places (a childless job is its own leaf), and the value lies in [0, 1].
C18_ProgressIsRoundedRatio ==
    \A n \in JobIds :
        LET p == GetStatusView(jobStore, n).progress
            off == p * Cardinality(JobLeaves(n)) - Cardinality(DoneLeaves(n)) * Scale
            dist == IF off < 0 THEN -off ELSE off
        IN \* p/Scale is the four-digit decimal nearest to done/total (ties: even digit)
           /\ 2 * dist <= Cardinality(JobLeaves(n))
           /\ 2 * dist = Cardinality(JobLeaves(n)) => p % 2 = 0
           /\ 0 <= p /\ p <= Scale

\* a node with three leaves of which one is DONE: a third is not a four-digit decimal
C18_Witness ==
    \E n \in JobIds :
        /\ Cardinality(JobLeaves(n)) = 3
        /\ Cardinality(DoneLeaves(n)) = 1
        /\ GetStatusView(jobStore, n).progress = 3333

----------------------------------------------------------------------------
(* Properties of the async worker *)

\* a status may stay, or move one step along PENDING, RUNNING, DONE | FAILED
StatusStep(old, new) ==
    \/ new = old
    \/ old = "PENDING" /\ new = "RUNNING"
    \/ old = "RUNNING" /\ new \in {"DONE", "FAILED"}

\* C12: the statuses written for a job form a prefix of PENDING, RUNNING,
\* DONE | FAILED: no step of a worker moves a job back or out of DONE / FAILED.
C12_StatusOnlyAdvances ==
    [][\A id \in DOMAIN jobStore.jobs :
          /\ id \in DOMAIN jobStore'.jobs
          /\ StatusStep(jobStore.jobs[id].status, jobStore'.jobs[id].status)]_vars

\* C13: while a worker handles a job, nothing of the batch is on the queue
\* before every child is persisted, and the job is marked DONE only when all
\* its children are persisted and enqueued.
C13_PersistAllThenEnqueueThenDone ==
    \A id \in DOMAIN workers :
        LET w == workers[id]
        IN /\ \A i \in 1..Len(w.made) : w.made[i].job_id \in DOMAIN jobStore.jobs
           /\ w.sent > 0 => Len(w.made) = Len(w.todo)
           /\ w.pc = "mark_done" => Len(w.made) = Len(w.todo) /\ w.sent = Len(w.todo)
           /\ w.job # NoJob /\ w.pc # "mark_done" /\ w.todo # <<>>
                 => jobStore.jobs[w.job.job_id].status # "DONE"

\* a worker about to mark DONE a job whose two children are persisted and queued
C13_Witness ==
    \E id \in DOMAIN workers :
        /\ workers[id].pc = "mark_done"
        /\ Len(workers[id].todo) = 2
        /\ workers[id].sent = 2

\* C14: a request object the hook declared more than once yields one child
\* job and one message: when the handling ends, as many children were created
\* and enqueued as there are distinct requests.
C14_RequestsDeduplicated ==
    \A id \in DOMAIN workers :
        LET w == workers[id]
            distinct == Cardinality({w.todo[i].obj : i \in 1..Len(w.todo)})
        IN w.pc = "mark_done" => Len(w.made) = distinct /\ w.sent = distinct

\* C15: no two workers are inside the hook of the same job id.
C15_OneWorkerPerJob ==
    \A a, b \in DOMAIN workers :
        a # b /\ workers[a].pc = "hook" /\ workers[b].pc = "hook"
            => workers[a].job.job_id # workers[b].job.job_id

\* the record _load_or_restore_job creates from a message
Restored(message) ==
    AsyncJob(message.job_id, message.parent_job_id, message.root_input_id,
             message.plugin_id, message.hook)

\* C16: loading the job of a message with a known job_id changes nothing in
\* the store and yields the stored job; with an unknown job_id it adds exactly
\* one record, carrying the message's job_id, plugin_id, hook, root_input_id
\* and parent_job_id. Either way the store then holds the record of that id.
C16_LoadOrRestore ==
    [][\A id \in DOMAIN workers :
          workers[id].pc = "load" /\ workers'[id].pc # "load" =>
            LET m == workers[id].message
            IN /\ m.job_id \in DOMAIN jobStore'.jobs
               /\ workers'[id].job = jobStore'.jobs[m.job_id]
               /\ IF m.job_id \in DOMAIN jobStore.jobs
                  THEN jobStore' = jobStore
                  ELSE /\ jobStore'.jobs = Put(jobStore.jobs, m.job_id, Restored(m))
                       /\ Cardinality(DOMAIN jobStore'.jobs)
                              = Cardinality(DOMAIN jobStore.jobs) + 1]_vars

\* a worker has restored the job of a message the store did not know, after
\* having handled a stored one
C16_Witness ==
    \E id \in DOMAIN workers :
        /\ workers[id].pc = "mark_running"
        /\ workers[id].restored
        /\ workers[id].job.job_id \in DOMAIN jobStore.jobs
        /\ \E j \in DOMAIN jobStore.jobs : jobStore.jobs[j].status = "DONE"

\* stop() was called on a started worker; run_forever has returned
StopSeen(id) == IF id \in DOMAIN workers THEN workers[id].stop ELSE FALSE
HasReturned(id) == IF id \in DOMAIN workers THEN workers[id].pc = "returned" ELSE FALSE

\* C19: after stop() a worker starts no new dequeue once it has seen the
\* signal, leaves run_forever only at the loop head (the hook in progress and
\* the rest of the handling run to their end), and does return.
C19_StopAtDequeueBoundary ==
    /\ [][\A id \in DOMAIN workers :
            /\ workers[id].stop /\ workers[id].pc = "loop"
                  => workers'[id].pc # "dequeue"
            /\ workers'[id].pc = "returned" /\ workers[id].pc # "returned"
                  => workers[id].pc = "loop" /\ workers[id].stop
            /\ workers[id].pc = "hook"
                  => workers'[id].pc \in {"hook", "failed", "create", "mark_done"}]_vars
    /\ \A id \in WorkerIds : StopSeen(id) ~> HasReturned(id)

\* a worker stopped while its hook was running has finished the job and returned
C19_Witness ==
    \E id \in DOMAIN workers :
        /\ workers[id].pc = "returned"
        /\ \E j \in DOMAIN jobStore.jobs : jobStore.jobs[j].status = "DONE"

----------------------------------------------------------------------------
(* FluxCapacitor.worker_loop *)

\* the arguments of worker_loop: max_iterations (capped = FALSE for None) and
\* sleep_seconds in tenths of a second (the default 0.1 is 1)
LoopCaps == {0, 1, 2}
SleepChoices == {-1, 0, 1}

\* worker_loop entered: iterations = 0
StartLoop(capped, max_iterations, sleep_seconds) ==
    [pc |-> "run", capped |-> capped, max_iterations |-> max_iterations,
     sleep_seconds |-> sleep_seconds, iterations |-> 0]

\* a loop body that sleeps on a zero interval too
WorkerLoopBodyStrict(l, processed) ==
    LET iterations == IF processed THEN l.iterations + 1 ELSE l.iterations
    IN [l EXCEPT !.iterations = iterations,
                 !.pc = IF l.capped /\ iterations >= l.max_iterations THEN "returned"
                        ELSE IF ~processed
                        THEN (IF l.sleep_seconds < 0 THEN "returned" ELSE "sleeping")
                        ELSE "run"]

\* worker_loop: what follows processed = self.run_once() in the loop body
WorkerLoopBody(l, processed) ==
    LET iterations == IF processed THEN l.iterations + 1 ELSE l.iterations
    IN [l EXCEPT !.iterations = iterations,
                 !.pc = IF l.capped /\ iterations >= l.max_iterations THEN "returned"
                        ELSE IF ~processed
                        THEN (IF l.sleep_seconds <= 0 THEN "returned" ELSE "sleeping")
                        ELSE "run"]

\* worker_loop: one pass of `while True`, run_once included
WorkerLoop ==
    /\ loop.pc = "run"
    /\ \E raised \in BOOLEAN, n \in 0..1 :
          LET staged == [i \in 1..n |-> [hook |-> "embed", plugin_id |-> None,
                                         payload_ok |-> TRUE]]
              r == RunOnceResult(Engine, hooks,
                                 [raised |-> raised, msg |-> "boom", staged |-> staged])
          IN /\ nextId + n <= MaxTasks
             /\ raised => n = 0
             /\ SetEngine(r.st)
             /\ lastRun' = [op |-> "run_once", id |-> r.id, ret |-> r.ret,
                            hook |-> r.hook,
                            msg |-> IF r.hook = "raised" THEN "boom" ELSE None]
             /\ loop' = WorkerLoopBody(loop, r.ret)

\* worker_loop: time.sleep(sleep_seconds) is over
WakeUp ==
    /\ loop.pc = "sleeping"
    /\ loop' = [loop EXCEPT !.pc = "run"]
    /\ UNCHANGED fluxVars

\* another thread enqueues a root task while the loop runs
EnqueueRoot ==
    /\ nextId < MaxTasks
    /\ SetEngine(EnqueueResult(Engine, "a", "split", NoId))
    /\ lastRun' = [op |-> "enqueue", id |-> nextId + 1, ret |-> TRUE,
                   hook |-> "none", msg |-> None]
    /\ UNCHANGED loop

----------------------------------------------------------------------------
(* Properties of worker_loop *)

\* the pass in which run_once found the queue empty
IdlePass == loop.pc = "run" /\ queue = <<>> /\ loop'.pc # "run"

\* C20 as stated: whatever the arguments, worker_loop returns in the pass
\* in which run_once reports idle.
C20_ReturnsAtFirstIdle == [][IdlePass => loop'.pc = "returned"]_vars

\* C20: in the pass in which run_once reports idle, worker_loop returns when
\* sleep_seconds <= 0 or the iteration cap is already reached; otherwise it
\* sleeps and calls run_once again.
C20_ReturnsAtIdleUnlessSleeping ==
    [][IdlePass =>
         /\ loop'.iterations = loop.iterations
         /\ IF loop.sleep_seconds <= 0
               \/ (loop.capped /\ loop.iterations >= loop.max_iterations)
            THEN loop'.pc = "returned"
            ELSE loop'.pc = "sleeping"]_vars

\* worker_loop() with its defaults sleeps on an empty queue after one task
C20_Witness ==
    /\ loop.pc = "sleeping"
    /\ ~loop.capped /\ loop.sleep_seconds = 1
    /\ loop.iterations = 1

----------------------------------------------------------------------------
(* Registries: embedders, repositories, task stores, task queues *)

\* entries registered over the four registries together
MaxRegistered == 2

\* keys offered by callers; " " strips to the empty string
RegistryKeys == {" ", "k1", "k2"}
\* str.strip() on the keys above
Strip(key) == IF key = " " THEN "" ELSE key
\* objects offered by callers, by identity; "alien" implements no protocol
Instances == {"i1", "i2", "alien"}
\* isinstance(obj, Embedder / BaseRepository / BaseTaskStore / BaseTaskQueue)
Implements(obj) == obj # "alien"

\* metadata dicts as sets of (key, value) pairs
Dicts == {{}, {<<"domain", "users">>}, {<<"domain", "orders">>}}
\* the meta argument: None or a dict
MetaArgs == {[none |-> TRUE, dict |-> {}]} \cup {[none |-> FALSE, dict |-> d] : d \in Dicts}
\* meta or {}
MetaOrEmpty(meta) == IF meta.none \/ meta.dict = {} THEN {} ELSE meta.dict

RepositoryEntry(id, repository, meta) ==
    [id |-> id, repository |-> repository, meta |-> meta]

\* OptimusPrime.register: the registry after the call and how the call ended
OptimusPrimeRegister(reg, key, embedder) ==
    IF Strip(key) = "" THEN [reg |-> reg, code |-> "ValueError"]
    ELSE IF ~Implements(embedder) THEN [reg |-> reg, code |-> "TypeError"]
    ELSE IF key \in DOMAIN reg
         THEN IF reg[key] = embedder
              THEN [reg |-> reg, code |-> "skipped"]
              ELSE [reg |-> reg, code |-> "ValueError"]
    ELSE [reg |-> Put(reg, key, embedder), code |-> "registered"]

\* a registration that rewrites the entry of an instance registered again
ExecuteRegisterOverwrite(reg, id, repository, meta) ==
    IF Strip(id) = "" THEN [reg |-> reg, code |-> "INVALID"]
    ELSE IF ~Implements(repository) THEN [reg |-> reg, code |-> "INVALID"]
    ELSE IF id \in DOMAIN reg /\ reg[id].repository # repository
         THEN [reg |-> reg, code |-> "ALREADY_EXISTS"]
    ELSE [reg |-> Put(reg, id, RepositoryEntry(id, repository, MetaOrEmpty(meta))),
          code |-> IF id \in DOMAIN reg THEN "DUPLICATE" ELSE "created"]

\* XFiles.execute_register: the registry after the call and the result's code
ExecuteRegister(reg, id, repository, meta) ==
    IF Strip(id) = "" THEN [reg |-> reg, code |-> "INVALID"]
    ELSE IF ~Implements(repository) THEN [reg |-> reg, code |-> "INVALID"]
    ELSE IF id \in DOMAIN reg
         THEN IF reg[id].repository = repository
              THEN [reg |-> reg, code |-> "DUPLICATE"]
              ELSE [reg |-> reg, code |-> "ALREADY_EXISTS"]
    ELSE [reg |-> Put(reg, id, RepositoryEntry(id, repository, MetaOrEmpty(meta))),
          code |-> "created"]

\* FluxCapacitor.register_store
RegisterStore(reg, name, store) ==
    IF Strip(name) = "" THEN [reg |-> reg, code |-> "ValueError"]
    ELSE IF ~Implements(store) THEN [reg |-> reg, code |-> "TypeError"]
    ELSE IF name \in DOMAIN reg
         THEN IF reg[name] = store
              THEN [reg |-> reg, code |-> "skipped"]
              ELSE [reg |-> reg, code |-> "ValueError"]
    ELSE [reg |-> Put(reg, name, store), code |-> "registered"]

\* FluxCapacitor.register_queue
RegisterQueue(reg, name, q) ==
    IF Strip(name) = "" THEN [reg |-> reg, code |-> "ValueError"]
    ELSE IF ~Implements(q) THEN [reg |-> reg, code |-> "TypeError"]
    ELSE IF name \in DOMAIN reg
         THEN IF reg[name] = q
              THEN [reg |-> reg, code |-> "skipped"]
              ELSE [reg |-> reg, code |-> "ValueError"]
    ELSE [reg |-> Put(reg, name, q), code |-> "registered"]

RegistryKinds == {"embedders", "repositories", "stores", "queues"}

\* OptimusPrime.__init__, XFiles.__init__, FluxCapacitor.__init__
EmptyRegistries == [kind \in RegistryKinds |-> <<>>]

NoRegisterCall ==
    [op |-> "none", kind |-> None, key |-> None, inst |-> None,
     meta |-> [none |-> TRUE, dict |-> {}], code |-> None]

\* FluxCapacitor.__init__: no default store or queue name
NoDefaults == [stores |-> None, queues |-> None]

InitRegistries ==
    /\ registries = EmptyRegistries
    /\ regOut = NoRegisterCall
    /\ defaults = NoDefaults

\* the registration call of one registry
RegisterIn(kind, reg, key, inst, meta) ==
    CASE kind = "embedders" -> OptimusPrimeRegister(reg, key, inst)
      [] kind = "repositories" -> ExecuteRegister(reg, key, inst, meta)
      [] kind = "stores" -> RegisterStore(reg, key, inst)
      [] kind = "queues" -> RegisterQueue(reg, key, inst)

\* the instance a registry holds under a key
InstanceAt(kind, reg, key) ==
    IF kind = "repositories" THEN reg[key].repository ELSE reg[key]

RegisteredKeys(regs) == {<<kind, key>> \in RegistryKinds \X RegistryKeys : key \in DOMAIN regs[kind]}

\* a client registers an object in one of the registries
Register ==
    \E kind \in RegistryKinds, key \in RegistryKeys, inst \in Instances, meta \in MetaArgs :
        LET r == RegisterIn(kind, registries[kind], key, inst, meta)
            regs == [registries EXCEPT ![kind] = r.reg]
        IN /\ kind # "repositories" => meta.none
           /\ Cardinality(RegisteredKeys(regs)) <= MaxRegistered
           /\ registries' = regs
           /\ regOut' = [op |-> "register", kind |-> kind, key |-> key,
                         inst |-> inst, meta |-> meta, code |-> r.code]
           /\ UNCHANGED defaults

\* dict without the entry of a key
Without(d, k) == [x \in DOMAIN d \ {k} |-> d[x]]

\* an unregister that leaves the default name as it is
UnregisterStoreKeepDefault(reg, default, name) ==
    IF name \in DOMAIN reg
    THEN [reg |-> Without(reg, name), default |-> default, ret |-> TRUE]
    ELSE [reg |-> reg, default |-> default, ret |-> FALSE]

\* FluxCapacitor.unregister_store: the registry and the default name after
\* the call, and what it returned
UnregisterStore(reg, default, name) ==
    IF name \in DOMAIN reg
    THEN [reg |-> Without(reg, name),
          default |-> IF default = name THEN None ELSE default, ret |-> TRUE]
    ELSE [reg |-> reg, default |-> default, ret |-> FALSE]

\* FluxCapacitor.unregister_queue
UnregisterQueue(reg, default, name) ==
    IF name \in DOMAIN reg
    THEN [reg |-> Without(reg, name),
          default |-> IF default = name THEN None ELSE default, ret |-> TRUE]
    ELSE [reg |-> reg, default |-> default, ret |-> FALSE]

\* FluxCapacitor.set_default_store: the default name after the call and the
\* exception that ended it, if any
SetDefaultStore(reg, default, name) ==
    IF name \notin DOMAIN reg
    THEN [default |-> default, raised |-> "MissingStoreError"]
    ELSE [default |-> name, raised |-> None]

\* FluxCapacitor.set_default_queue
SetDefaultQueue(reg, default, name) ==
    IF name \notin DOMAIN reg
    THEN [default |-> default, raised |-> "MissingQueueError"]
    ELSE [default |-> name, raised |-> None]

\* the registries of FluxCapacitor
BackendKinds == {"stores", "queues"}

\* a client registers a store or a queue
RegisterBackend ==
    \E kind \in BackendKinds, name \in RegistryKeys, inst \in Instances :
        LET r == IF kind = "stores" THEN RegisterStore(registries[kind], name, inst)
                 ELSE RegisterQueue(registries[kind], name, inst)
            regs == [registries EXCEPT ![kind] = r.reg]
        IN /\ Cardinality(RegisteredKeys(regs)) <= MaxRegistered
           /\ registries' = regs
           /\ regOut' = [op |-> "register", kind |-> kind, key |-> name,
                         inst |-> inst, meta |-> [none |-> TRUE, dict |-> {}],
                         code |-> r.code]
           /\ UNCHANGED defaults

\* a client unregisters a store or a queue; was is the default name before
Unregister ==
    \E kind \in BackendKinds, name \in RegistryKeys :
        LET r == IF kind = "stores"
                 THEN UnregisterStore(registries[kind], defaults[kind], name)
                 ELSE UnregisterQueue(registries[kind], defaults[kind], name)
        IN /\ registries' = [registries EXCEPT ![kind] = r.reg]
           /\ defaults' = [defaults EXCEPT ![kind] = r.default]
           /\ regOut' = [op |-> "unregister", kind |-> kind, key |-> name,
                         was |-> defaults[kind], ret |-> r.ret, raised |-> None]

\* a client names the default store or queue
SetDefault ==
    \E kind \in BackendKinds, name \in RegistryKeys :
        LET r == IF kind = "stores"
                 THEN SetDefaultStore(registries[kind], defaults[kind], name)
                 ELSE SetDefaultQueue(registries[kind], defaults[kind], name)
        IN /\ defaults' = [defaults EXCEPT ![kind] = r.default]
           /\ regOut' = [op |-> "set_default", kind |-> kind, key |-> name,
                         was |-> defaults[kind], ret |-> TRUE, raised |-> r.raised]
           /\ UNCHANGED registries

----------------------------------------------------------------------------
(* Properties of the registries *)

RegisterFailures == {"ValueError", "TypeError", "INVALID", "ALREADY_EXISTS"}
RegisterSkips == {"skipped", "DUPLICATE"}

\* C21: in each registry (embedders, repositories, task stores, task queues),
\* registering the instance an id already holds leaves the registry as it was
\* (its size and the stored entry, metadata included), and registering another
\* instance under a used id fails and leaves the registration as it was.
C21_SameInstanceSkippedOtherRefused ==
    [][regOut'.op = "register" =>
         LET kind == regOut'.kind
             key == regOut'.key
             reg == registries[kind]
         IN key \in DOMAIN reg =>
              /\ registries'[kind] = reg
              /\ Cardinality(DOMAIN registries'[kind]) = Cardinality(DOMAIN reg)
              /\ IF InstanceAt(kind, reg, key) = regOut'.inst
                 THEN regOut'.code \in RegisterSkips
                 ELSE regOut'.code \in RegisterFailures]_vars

\* a repository registered again with other metadata keeps its first metadata,
\* next to a second registration
C21_Witness ==
    /\ regOut.op = "register" /\ regOut.kind = "repositories"
    /\ regOut.code = "DUPLICATE"
    /\ registries.repositories[regOut.key].meta # MetaOrEmpty(regOut.meta)
    /\ Cardinality(DOMAIN registries.repositories) = 2

----------------------------------------------------------------------------
(* Plugin discovery: entry points, then the plugins folder *)

\* entry points installed in the environment
MaxEntryPoints == 2

\* the entry points an environment may hold
EntryPointChoices ==
    {EntryPoint(n, l, "path", n, "plugin", "ok") :
         n \in PluginIds, l \in {"not_callable", "raises"}}
    \cup {EntryPoint(n, "factory", r, n, "plugin", "ok") :
              n \in PluginIds, r \in {"number", "raises"}}
    \cup {EntryPoint(n, "factory", r, n, "missing", "ok") :
              n \in PluginIds, r \in {"path", "site-packages"}}
    \cup {EntryPoint(n, "factory", r, n, "plugin", q) :
              n \in PluginIds, r \in {"path", "site-packages"}, q \in {"ok", "fail"}}

\* a plugin folder with one hook
HookFolder(id) ==
    [id |-> id,
     decls |-> <<[name |-> "split", priority |-> DefaultPriority, fn |-> "append"]>>]

\* the plugins folder: any of the plugin ids, in glob order
DiscoveryDisks ==
    {<<>>}
    \cup {<<HookFolder(p)>> : p \in PluginIds}
    \cup {<<HookFolder(pq[1]), HookFolder(pq[2])>> :
              pq \in {x \in PluginIds \X PluginIds : x[1] # x[2]}}

----------------------------------------------------------------------------
(* Properties of plugin discovery *)

\* the entry point leads to a plugin folder, of this id
Offers(ep, id) ==
    /\ ep.load = "factory"
    /\ ep.returns \in {"path", "site-packages"}
    /\ ep.folder = "plugin"
    /\ Basename(EpPath(ep)) = id

\* the function objects created for folder j of the plugins folder
FolderUids(j) == {(j - 1) * (MaxHandles + 1) + i : i \in 1..MaxHandles}

\* every function object some registered plugin or cached pipeline holds
LiveUids ==
    UNION {{plugins[i].hooks[n].function.uid : n \in 1..Len(plugins[i].hooks)} :
               i \in 1..Len(plugins)}
    \cup UNION {{hooks[name][n].function.uid : n \in 1..Len(hooks[name])} :
                    name \in DOMAIN hooks}

OfferedTwice(k, j) ==
    /\ k \in 1..Len(entryPoints) /\ j \in 1..Len(disk)
    /\ Offers(entryPoints[k], disk[j].id)

\* C22: after find_plugins every registry key is the id of the plugin stored
\* under it, and a plugin id offered both by an entry point and by a folder of
\* the plugins folder is registered from the entry point: the folder's plugin
\* is neither registered nor activated.
C22_KeysAreIdsEntryPointsFirst ==
    discovery.ran =>
        /\ \A i \in 1..Len(plugins) :
               /\ plugins[i].key = plugins[i].id
               /\ plugins[i].id = Basename(plugins[i].path)
               /\ \A i2 \in 1..Len(plugins) : plugins[i2].key = plugins[i].key => i2 = i
        /\ \A k \in 1..Len(entryPoints), j \in 1..Len(disk) :
               OfferedTwice(k, j) =>
                   /\ \E i \in 1..Len(plugins) :
                          /\ plugins[i].key = disk[j].id
                          /\ plugins[i].path.dir = "site-packages"
                   /\ \A i \in 1..Len(plugins) : plugins[i].path # FolderPath(disk[j].id)
                   /\ FolderUids(j) \cap LiveUids = {}

\* an id offered twice is registered from the entry point, next to a folder
\* of another id that is registered from the plugins folder
C22_Witness ==
    /\ discovery.ran
    /\ \E k \in 1..Len(entryPoints), j \in 1..Len(disk) : OfferedTwice(k, j)
    /\ \E i \in 1..Len(plugins) : plugins[i].path.dir = "site-packages" /\ plugins[i].active
    /\ \E i \in 1..Len(plugins) : plugins[i].path.dir = "plugins_folder"

\* the factory is not callable, returns no string, or loading or calling raises
InvalidEntryPoint(ep) ==
    \/ ep.load \in {"not_callable", "raises"}
    \/ ep.returns \in {"number", "raises"}

\* C26: during entry-point discovery an entry point whose factory is not
\* callable, returns a non-string or raises is skipped: it registers no
\* plugin, and every entry point after it is still processed.
C26_InvalidEntryPointsSkipped ==
    discovery.ran =>
        /\ Len(discovery.log) = Len(entryPoints)
        /\ \A k \in 1..Len(entryPoints) :
               /\ discovery.log[k].name = entryPoints[k].name
               /\ InvalidEntryPoint(entryPoints[k]) =>
                      discovery.log[k].outcome \in {"not_callable", "not_a_string", "failed"}
               /\ (~InvalidEntryPoint(entryPoints[k])
                   /\ \E id \in PluginIds : Offers(entryPoints[k], id))
                      => Basename(EpPath(entryPoints[k])) \in PluginKeys(plugins)
        /\ {plugins[i].key : i \in {n \in 1..Len(plugins) : plugins[n].path.dir = "site-packages"}}
               = {Basename(EpPath(entryPoints[k])) :
                      k \in {n \in 1..Len(entryPoints) :
                                 /\ ~InvalidEntryPoint(entryPoints[n])
                                 /\ \E id \in PluginIds : Offers(entryPoints[n], id)}}

\* an invalid entry point first, then a valid one whose plugin is loaded
C26_Witness ==
    /\ discovery.ran
    /\ Len(entryPoints) = 2
    /\ InvalidEntryPoint(entryPoints[1])
    /\ discovery.log[2].outcome = "loaded"
    /\ \E i \in 1..Len(plugins) : plugins[i].key = Basename(EpPath(entryPoints[2]))

----------------------------------------------------------------------------
(* Plugin lifecycle: dependency installation, the import cache, loading, *)
(* activation and deactivation                                           *)

\* module bodies executed in all
MaxExecs == 2

\* plugin folders by name; a folder name may hold a dot
LifecycleIds == {"a", "a.b", "b"}
\* the dot-separated parts of a name
Parts(id) == IF id = "a.b" THEN <<"a", "b">> ELSE <<id>>

\* f"plugins.{self._id}", as the parts of the dotted name
PluginPkgName(id) == <<"plugins">> \o Parts(id)
\* Plugin._module_name_for_file: plugins.<id>.<relative path, dotted>
ModuleNameForFile(id, rel) == PluginPkgName(id) \o rel
\* name == pkg or name.startswith(pkg + ".")
InNamespace(name, pkg) ==
    \/ name = pkg
    \/ Len(name) > Len(pkg) /\ SubSeq(name, 1, Len(pkg)) = pkg

\* a plugin file: its path below the folder, whether its body runs through,
\* the @hook functions and the @plugin overrides it defines. A hook may be
\* given a plugin_id by the module body itself
HookFile(body, preset) ==
    [rel |-> <<"src", "hook_mod">>, body |-> body,
     hooks |-> <<[name |-> "split", preset |-> preset]>>, overrides |-> {}]
LifeFile(name, raises) ==
    [rel |-> <<"life">>, body |-> "ok", hooks |-> <<>>,
     overrides |-> {[name |-> name, raises |-> raises]}]

\* the dependency manifest of a folder and what the install command does
Manifests ==
    {[file |-> "none", missing |-> FALSE, pip |-> "ok"],
     [file |-> "requirements", missing |-> FALSE, pip |-> "ok"],
     [file |-> "requirements", missing |-> TRUE, pip |-> "ok"],
     [file |-> "pyproject", missing |-> TRUE, pip |-> "ok"],
     [file |-> "pyproject", missing |-> TRUE, pip |-> "fails"]}

\* the folders a plugin may be created from
Folders ==
    {[files |-> <<h>> \o l, manifest |-> m] :
         h \in {HookFile("ok", None), HookFile("ok", "already-set"), HookFile("raises", None)},
         l \in {<<>>, <<LifeFile("activated", FALSE)>>, <<LifeFile("activated", TRUE)>>,
                <<LifeFile("deactivated", FALSE)>>},
         m \in Manifests}

\* the folder of the plugins next to the one under study
PlainFolder ==
    [files |-> <<HookFile("ok", None)>>,
     manifest |-> [file |-> "none", missing |-> FALSE, pip |-> "ok"]]

\* shutil.which finds these commands
ManagerChoices == {{}, {"uv"}, {"pip"}, {"pip3", "pip"}}

\* no package manager result
NoManager == <<>>

\* PackageInstaller.package_manager: (base_cmd, is_uv), or None
PackageManager(found) ==
    IF "uv" \in found THEN << <<"uv", "pip">>, TRUE >>
    ELSE IF "pip3" \in found THEN << <<"pip3">>, FALSE >>
    ELSE IF "pip" \in found THEN << <<"pip">>, FALSE >>
    ELSE NoManager

\* PackageInstaller.install: what it raises and how many subprocesses it ran.
\* `base_cmd, is_uv = self.package_manager` unpacks the result before the
\* test `base_cmd is None`: unpacking None raises TypeError, and after a
\* successful unpacking base_cmd is a list, never None
Install(found, manifest) ==
    LET pm == PackageManager(found)
        run == [raised |-> IF manifest.pip = "ok" THEN None ELSE "CalledProcessError",
                subprocesses |-> 1]
        skip == [raised |-> None, subprocesses |-> 0]
    IN IF Len(pm) # 2 THEN [raised |-> "TypeError", subprocesses |-> 0]
       ELSE IF manifest.file = "pyproject" THEN run
       ELSE IF manifest.file = "requirements" /\ manifest.missing THEN run
       ELSE skip

\* a module created by types.ModuleType / module_from_spec: the hook handles
\* (object ids) and overrides among its top-level attributes
Module(handles, overrides) == [handles |-> handles, overrides |-> overrides]

\* a hook handle object as @hook leaves it; writes counts the assignments of
\* plugin_id made by the loader
HandleObject(decl) == [name |-> decl.name, plugin_id |-> decl.preset, writes |-> 0]

Count(f, k) == IF k \in DOMAIN f THEN f[k] ELSE 0

\* spec.loader.exec_module on a module not in the cache: the body runs; if it
\* raises, the module is taken out of sys.modules again
ExecModule(st, name, file) ==
    LET ran == [st EXCEPT !.execs = Put(@, name, Count(@, name) + 1)]
        n == Len(st.objects)
    IN IF file.body = "raises" THEN ran
       ELSE [ran EXCEPT
               !.objects = @ \o [i \in 1..Len(file.hooks) |-> HandleObject(file.hooks[i])],
               !.modules = Put(@, name,
                               Module([i \in 1..Len(file.hooks) |-> n + i], file.overrides))]

\* a loader that executes a file's body whether or not its module is cached
RECURSIVE LoadFilesAlways(_, _, _, _)
LoadFilesAlways(acc, id, files, k) ==
    IF k > Len(files) THEN acc
    ELSE LET name == ModuleNameForFile(id, files[k].rel)
             st == ExecModule(acc.st, name, files[k])
         IN LoadFilesAlways(
                IF files[k].body # "raises"
                THEN [st |-> st,
                      hooks |-> acc.hooks \o st.modules[name].handles,
                      overrides |-> acc.overrides \cup st.modules[name].overrides]
                ELSE [acc EXCEPT !.st = st],
                id, files, k + 1)

\* the loop of _load_decorated_functions over self.py_files, from file k on:
\* reuse the cached module or execute the file, then collect the members
RECURSIVE LoadFiles(_, _, _, _)
LoadFiles(acc, id, files, k) ==
    IF k > Len(files) THEN acc
    ELSE LET name == ModuleNameForFile(id, files[k].rel)
             st == IF name \in DOMAIN acc.st.modules THEN acc.st
                   ELSE ExecModule(acc.st, name, files[k])
         IN LoadFiles(
                IF name \in DOMAIN st.modules
                THEN [st |-> st,
                      hooks |-> acc.hooks \o st.modules[name].handles,
                      overrides |-> acc.overrides \cup st.modules[name].overrides]
                ELSE [acc EXCEPT !.st = st],
                id, files, k + 1)

\* the package modules put in sys.modules when absent
WithPackage(modules, name) ==
    IF name \in DOMAIN modules THEN modules ELSE Put(modules, name, Module(<<>>, {}))

\* _clean_and_enrich_hook on a handle object, counting the loader's writes
EnrichObject(h, id) ==
    LET e == CleanAndEnrichHook(h, id)
    IN [e EXCEPT !.writes = IF h.plugin_id = None THEN @ + 1 ELSE @]

\* Plugin._load_decorated_functions
LoadDecoratedFunctions(st, id, folder) ==
    LET pkgs == [st EXCEPT !.modules =
                    WithPackage(WithPackage(@, <<"plugins">>), PluginPkgName(id))]
        got == LoadFiles([st |-> pkgs, hooks |-> <<>>, overrides |-> {}],
                         id, folder.files, 1)
        mine == {got.hooks[i] : i \in 1..Len(got.hooks)}
    IN [got.st EXCEPT
          !.objects = [o \in 1..Len(@) |->
                         IF o \in mine THEN EnrichObject(@[o], id) ELSE @[o]],
          !.plugins[id].hooks = got.hooks,
          !.plugins[id].overrides = got.overrides]

\* Plugin._unload_decorated_functions
UnloadDecoratedFunctions(st, id) ==
    LET to_remove == {name \in DOMAIN st.modules : InNamespace(name, PluginPkgName(id))}
    IN [st EXCEPT
          !.modules = [name \in DOMAIN @ \ to_remove |-> @[name]],
          !.plugins[id].hooks = <<>>,
          !.plugins[id].overrides = {}]

\* the override of this name among a plugin's overrides, if any
OverrideNamed(plugin, name) == {o \in plugin.overrides : o.name = name}

\* an activation that marks the plugin active before its override has run
PluginActivateEager(st, env, id) ==
    LET inst == Install(env.found, env.folders[id].manifest)
        loaded == LoadDecoratedFunctions(st, id, env.folders[id])
        marked == [loaded EXCEPT !.plugins[id].active = TRUE]
        act == OverrideNamed(loaded.plugins[id], "activated")
    IN IF inst.raised # None
       THEN [st |-> st, steps |-> <<"install">>, raised |-> inst.raised,
             subprocesses |-> inst.subprocesses]
       ELSE IF act # {} /\ \E o \in act : o.raises
       THEN [st |-> marked, steps |-> <<"install", "load", "activated">>,
             raised |-> "Exception", subprocesses |-> inst.subprocesses]
       ELSE [st |-> marked,
             steps |-> <<"install", "load">>
                       \o (IF act # {} THEN <<"activated">> ELSE <<>>) \o <<"active">>,
             raised |-> None, subprocesses |-> inst.subprocesses]

\* Plugin.activate: the state after the call, the steps begun in order, the
\* exception that ended the call if any, and the subprocesses run
PluginActivate(st, env, id) ==
    LET inst == Install(env.found, env.folders[id].manifest)
        loaded == LoadDecoratedFunctions(st, id, env.folders[id])
        act == OverrideNamed(loaded.plugins[id], "activated")
    IN IF inst.raised # None
       THEN [st |-> st, steps |-> <<"install">>, raised |-> inst.raised,
             subprocesses |-> inst.subprocesses]
       ELSE IF act # {} /\ \E o \in act : o.raises
       THEN [st |-> loaded, steps |-> <<"install", "load", "activated">>,
             raised |-> "Exception", subprocesses |-> inst.subprocesses]
       ELSE [st |-> [loaded EXCEPT !.plugins[id].active = TRUE],
             steps |-> <<"install", "load">>
                       \o (IF act # {} THEN <<"activated">> ELSE <<>>) \o <<"active">>,
             raised |-> None, subprocesses |-> inst.subprocesses]

\* Plugin.deactivate
PluginDeactivate(st, id) ==
    LET deact == OverrideNamed(st.plugins[id], "deactivated")
    IN IF deact # {} /\ \E o \in deact : o.raises
       THEN [st |-> st, steps |-> <<"deactivated">>, raised |-> "Exception"]
       ELSE [st |-> [UnloadDecoratedFunctions(st, id) EXCEPT !.plugins[id].active = FALSE],
             steps |-> (IF deact # {} THEN <<"deactivated">> ELSE <<>>)
                       \o <<"unload", "inactive">>,
             raised |-> None]

\* Plugin.__init__: no hook, no override, not active
InactivePlugin == [hooks |-> <<>>, overrides |-> {}, active |-> FALSE]

NoLifecycleCall ==
    [op |-> "none", id |-> None, steps |-> <<>>, raised |-> None,
     subprocesses |-> 0, loaded |-> {}]

\* no plugin folder at hand
NoFolders == [found |-> {}, folders |-> <<>>]

\* an interpreter that has imported no plugin, a Plugin object per folder
InitLifecycle ==
    /\ sysModules = <<>>
    /\ objects = <<>>
    /\ execCount = <<>>
    /\ pluginObjs = [id \in DOMAIN hostEnv.folders |-> InactivePlugin]
    /\ lifecycle = NoLifecycleCall

Loader ==
    [modules |-> sysModules, objects |-> objects, execs |-> execCount,
     plugins |-> pluginObjs]

SetLoader(st) ==
    /\ sysModules' = st.modules
    /\ objects' = st.objects
    /\ execCount' = st.execs
    /\ pluginObjs' = st.plugins

\* module bodies executed so far
Executions(execs) == Cardinality(UNION {{<<name, n>> : n \in 1..execs[name]} : name \in DOMAIN execs})

\* plugin._load_decorated_functions() called on a plugin
Load ==
    \E id \in DOMAIN pluginObjs :
        LET st == LoadDecoratedFunctions(Loader, id, hostEnv.folders[id])
        IN /\ Executions(st.execs) <= MaxExecs
           /\ SetLoader(st)
           /\ lifecycle' = [op |-> "load", id |-> id, steps |-> <<"load">>,
                            raised |-> None, subprocesses |-> 0,
                            loaded |-> lifecycle.loaded \cup {id}]
           /\ UNCHANGED hostEnv

\* plugin.activate() called on a plugin
ActivateCall ==
    \E id \in DOMAIN pluginObjs :
        LET r == PluginActivate(Loader, hostEnv, id)
        IN /\ Executions(r.st.execs) <= MaxExecs
           /\ SetLoader(r.st)
           /\ lifecycle' = [op |-> "activate", id |-> id, steps |-> r.steps,
                            raised |-> r.raised, subprocesses |-> r.subprocesses,
                            loaded |-> IF "load" \in {r.steps[i] : i \in 1..Len(r.steps)}
                                       THEN lifecycle.loaded \cup {id}
                                       ELSE lifecycle.loaded]
           /\ UNCHANGED hostEnv

\* plugin.deactivate() called on a plugin
DeactivateCall ==
    \E id \in DOMAIN pluginObjs :
        LET r == PluginDeactivate(Loader, id)
        IN /\ SetLoader(r.st)
           /\ lifecycle' = [op |-> "deactivate", id |-> id, steps |-> r.steps,
                            raised |-> r.raised, subprocesses |-> 0,
                            loaded |-> IF r.raised = None THEN lifecycle.loaded \ {id}
                                       ELSE lifecycle.loaded]
           /\ UNCHANGED hostEnv

----------------------------------------------------------------------------
(* Properties of the plugin lifecycle *)

\* the step just taken loaded the decorated functions of plugin id
LoadsPlugin(id) ==
    /\ lifecycle'.op \in {"load", "activate"}
    /\ lifecycle'.id = id
    /\ "load" \in {lifecycle'.steps[i] : i \in 1..Len(lifecycle'.steps)}

FileModules(id) ==
    {ModuleNameForFile(id, hostEnv.folders[id].files[k].rel) :
         k \in 1..Len(hostEnv.folders[id].files)}

HandleSet(plugin) == {plugin.hooks[i] : i \in 1..Len(plugin.hooks)}

\* C23 as stated: a load of a plugin that was loaded before (and not unloaded
\* since) executes no module body, yields the same hook handles and assigns
\* no plugin_id.
C23_RepeatedLoadExecutesNothing ==
    [][\A id \in DOMAIN pluginObjs :
          (LoadsPlugin(id) /\ id \in lifecycle.loaded) =>
              /\ execCount' = execCount
              /\ HandleSet(pluginObjs'[id]) = HandleSet(pluginObjs[id])
              /\ objects' = objects]_vars

\* C23: a load executes the body of exactly those files of the plugin whose
\* module is not in the import cache: a cached module is reused as it is, so
\* repeated loads of modules whose body ran through execute them once and
\* yield the same hook handles, while a module whose body raised was taken
\* out of the cache and is executed again; the loader assigns a handle's
\* plugin_id at most once and never overwrites a plugin_id that is set.
C23_OnlyUncachedModulesExecuted ==
    [][\A id \in DOMAIN pluginObjs :
          LoadsPlugin(id) =>
              /\ \A name \in FileModules(id) :
                     IF name \in DOMAIN sysModules
                     THEN /\ Count(execCount', name) = Count(execCount, name)
                          /\ sysModules'[name] = sysModules[name]
                     ELSE Count(execCount', name) = Count(execCount, name) + 1
              /\ (id \in lifecycle.loaded /\ FileModules(id) \subseteq DOMAIN sysModules)
                     => HandleSet(pluginObjs'[id]) = HandleSet(pluginObjs[id])
              /\ \A o \in 1..Len(objects) :
                     objects[o].plugin_id # None
                         => objects'[o].plugin_id = objects[o].plugin_id
              /\ \A o \in 1..Len(objects') : objects'[o].writes <= 1]_vars

\* plugin "a" activated and then loaded again: one execution, one assignment
C23_Witness ==
    /\ lifecycle.op = "load" /\ lifecycle.id = "a"
    /\ pluginObjs["a"].active
    /\ Len(pluginObjs["a"].hooks) = 1
    /\ objects[pluginObjs["a"].hooks[1]].writes = 1
    /\ Count(execCount, ModuleNameForFile("a", <<"src", "hook_mod">>)) = 1

IsPrefix(s, t) == Len(s) <= Len(t) /\ SubSeq(t, 1, Len(s)) = s

\* the steps of a complete activation of a plugin with these overrides
ActivationOrder(plugin) ==
    <<"install", "load">>
    \o (IF OverrideNamed(plugin, "activated") # {} THEN <<"activated">> ELSE <<>>)
    \o <<"active">>

\* C24: Plugin.activate installs the dependencies, then loads the decorated
\* items and assigns plugin_id to the handles whose slot is unset, then runs
\* the "activated" override if there is one, and only then marks the plugin
\* active; when a step raises, the call does not mark the plugin active.
C24_ActivationOrder ==
    [][lifecycle'.op = "activate" =>
          LET id == lifecycle'.id
              steps == lifecycle'.steps
              loaded == "load" \in {steps[i] : i \in 1..Len(steps)}
          IN /\ IF loaded
                THEN /\ IsPrefix(steps, ActivationOrder(pluginObjs'[id]))
                     /\ \A o \in HandleSet(pluginObjs'[id]) :
                            /\ objects'[o].plugin_id # None
                            /\ (o <= Len(objects) /\ objects[o].plugin_id # None)
                                   => objects'[o].plugin_id = objects[o].plugin_id
                ELSE /\ steps = <<"install">>
                     /\ pluginObjs'[id] = pluginObjs[id]
             /\ IF lifecycle'.raised = None
                THEN /\ steps = ActivationOrder(pluginObjs'[id])
                     /\ pluginObjs'[id].active
                ELSE /\ steps[Len(steps)] # "active"
                     /\ pluginObjs'[id].active = pluginObjs[id].active]_vars

\* an activation that ran all four steps
C24_Witness ==
    /\ lifecycle.op = "activate" /\ lifecycle.raised = None
    /\ lifecycle.steps = <<"install", "load", "activated", "active">>
    /\ pluginObjs[lifecycle.id].active
    /\ \A i \in 1..Len(pluginObjs[lifecycle.id].hooks) :
           objects[pluginObjs[lifecycle.id].hooks[i]].plugin_id = lifecycle.id

\* C25: after Plugin.deactivate returns no module of plugins.<id> and
\* plugins.<id>.* is left in the import cache, the plugin has no hook, no
\* override and is inactive, and the cached modules, hooks and overrides of
\* every other plugin are as they were.
C25_DeactivateTouchesOnlyItsPlugin ==
    [][(lifecycle'.op = "deactivate" /\ lifecycle'.raised = None) =>
          LET id == lifecycle'.id
          IN /\ \A name \in DOMAIN sysModules' : ~InNamespace(name, PluginPkgName(id))
             /\ pluginObjs'[id] = InactivePlugin
             /\ \A other \in DOMAIN pluginObjs \ {id} :
                    /\ pluginObjs'[other] = pluginObjs[other]
                    /\ \A name \in FileModules(other) \cup {PluginPkgName(other)} :
                           name \in DOMAIN sysModules =>
                               /\ name \in DOMAIN sysModules'
                               /\ sysModules'[name] = sysModules[name]]_vars

\* C29: when neither uv nor pip is found, activation gets past the installer,
\* which raises nothing and runs no subprocess, and loads the plugin's hooks.
C29_NoManagerSkipsInstall ==
    (lifecycle.op = "activate" /\ PackageManager(hostEnv.found) = NoManager) =>
        /\ lifecycle.subprocesses = 0
        /\ lifecycle.raised # "TypeError"
        /\ "load" \in {lifecycle.steps[i] : i \in 1..Len(lifecycle.steps)}

----------------------------------------------------------------------------
(* Query validation against repository capabilities *)

\* the largest limit or offset a caller asks for
MaxLimit == 3

\* Python values carry their type: None, str, int, list, tuple
NoneV == [t |-> "none", s |-> "", n |-> 0, items |-> <<>>]
StrV(s) == [t |-> "str", s |-> s, n |-> 0, items |-> <<>>]
IntV(n) == [t |-> "int", s |-> "", n |-> n, items |-> <<>>]
ListV(items) == [t |-> "list", s |-> "", n |-> 0, items |-> items]
TupleV(items) == [t |-> "tuple", s |-> "", n |-> 0, items |-> items]

ARITY_3_COMPARISON ==
    {"eq", "ne", "gt", "gte", "lt", "lte", "in", "contains", "startswith",
     "endswith", "regex", "fulltext", "near", "within"}
ARITY_2_UNARY == {"exists", "not"}
ARITY_3_LOGICAL == {"and", "or"}

\* get_expected_arity
GetExpectedArity(op) ==
    IF op \in ARITY_3_COMPARISON \/ op \in ARITY_3_LOGICAL THEN 3
    ELSE IF op \in ARITY_2_UNARY THEN 2
    ELSE 0

\* an optional allow-list: None or a set of field names
NoAllowList == [none |-> TRUE, fields |-> {}]
AllowList(fields) == [none |-> FALSE, fields |-> fields]
Allows(allowed, name) == allowed.none \/ name \in allowed.fields

Valid == [status |-> "ok", feature |-> None, op |-> None, path |-> <<>>]
\* raise ValidationError(..., field=path)
ValidationError(path) ==
    [status |-> "ValidationError", feature |-> None, op |-> None, path |-> path]
\* raise NotSupported(feature=...)
NotSupported(feature, op) ==
    [status |-> "NotSupported", feature |-> feature, op |-> op, path |-> <<>>]

\* a validation that stops at the left branch of and / or
RECURSIVE ValidateWhereNodeLeftOnly(_, _, _, _)
ValidateWhereNodeLeftOnly(node, caps, allowed_fields, path) ==
    IF node.t # "tuple" THEN ValidationError(path)
    ELSE IF Len(node.items) = 0 THEN ValidationError(path)
    ELSE IF node.items[1].t # "str" THEN ValidationError(path \o <<"[0]">>)
    ELSE LET op == node.items[1].s
         IN IF caps.filter.supported /\ op \notin caps.filter.ops
            THEN NotSupported("filter operator", op)
            ELSE IF GetExpectedArity(op) = 0 THEN ValidationError(path)
            ELSE IF Len(node.items) # GetExpectedArity(op) THEN ValidationError(path)
            ELSE IF op \in ARITY_3_COMPARISON \/ op = "exists"
            THEN IF node.items[2].t # "str" THEN ValidationError(path \o <<"[1]">>)
                 ELSE IF ~Allows(allowed_fields, node.items[2].s)
                      THEN ValidationError(path \o <<"[1]">>)
                 ELSE IF op = "in" /\ node.items[3].t # "list"
                      THEN ValidationError(path \o <<"[2]">>)
                 ELSE Valid
            ELSE IF op = "not"
            THEN ValidateWhereNodeLeftOnly(node.items[2], caps, allowed_fields, path \o <<"not">>)
            ELSE ValidateWhereNodeLeftOnly(node.items[2], caps, allowed_fields,
                                           path \o <<op, "left">>)

\* _validate_where_node: Valid, or the first exception raised
RECURSIVE ValidateWhereNode(_, _, _, _)
ValidateWhereNode(node, caps, allowed_fields, path) ==
    IF node.t # "tuple" THEN ValidationError(path)
    ELSE IF Len(node.items) = 0 THEN ValidationError(path)
    ELSE IF node.items[1].t # "str" THEN ValidationError(path \o <<"[0]">>)
    ELSE LET op == node.items[1].s
         IN IF caps.filter.supported /\ op \notin caps.filter.ops
            THEN NotSupported("filter operator", op)
            ELSE IF GetExpectedArity(op) = 0 THEN ValidationError(path)
            ELSE IF Len(node.items) # GetExpectedArity(op) THEN ValidationError(path)
            ELSE IF op \in ARITY_3_COMPARISON \/ op = "exists"
            THEN IF node.items[2].t # "str" THEN ValidationError(path \o <<"[1]">>)
                 ELSE IF ~Allows(allowed_fields, node.items[2].s)
                      THEN ValidationError(path \o <<"[1]">>)
                 ELSE IF op = "in" /\ node.items[3].t # "list"
                      THEN ValidationError(path \o <<"[2]">>)
                 ELSE Valid
            ELSE IF op = "not"
            THEN ValidateWhereNode(node.items[2], caps, allowed_fields, path \o <<"not">>)
            ELSE LET left == ValidateWhereNode(node.items[2], caps, allowed_fields,
                                               path \o <<op, "left">>)
                 IN IF left.status # "ok" THEN left
                    ELSE ValidateWhereNode(node.items[3], caps, allowed_fields,
                                           path \o <<op, "right">>)

\* order_field.lstrip("-") on the order fields callers write
Lstrip(s) == IF s \in {"-f", "--f"} THEN "f" ELSE IF s = "-g" THEN "g" ELSE s

\* the first failing item of select / order_by, or Valid
RECURSIVE ValidateItems(_, _, _, _, _)
ValidateItems(items, allowed, strip, what, i) ==
    IF i > Len(items) THEN Valid
    ELSE IF items[i].t # "str" THEN ValidationError(<<what, ToString(i - 1)>>)
    ELSE IF ~Allows(allowed, IF strip THEN Lstrip(items[i].s) ELSE items[i].s)
         THEN ValidationError(<<what, ToString(i - 1)>>)
    ELSE ValidateItems(items, allowed, strip, what, i + 1)

Min(a, b) == IF a <= b THEN a ELSE b

\* a clamp that always hands out the maximum
ResultLimitAlwaysMax(limit, max_limit) ==
    IF max_limit.t # "none" THEN IntV(max_limit.n) ELSE limit

\* result_limit: min(query.limit, caps.pagination.max_limit) when a maximum
\* is declared, else query.limit
ResultLimit(limit, max_limit) ==
    IF max_limit.t # "none" THEN IntV(Min(limit.n, max_limit.n)) ELSE limit

QuerySpec(select, where, order_by, limit, offset) ==
    [select |-> select, where |-> where, order_by |-> order_by,
     limit |-> limit, offset |-> offset]

\* what a call gives: an exception, or the returned QuerySpec and whether it
\* is the very object that was passed
Raised(e) == [status |-> e.status, feature |-> e.feature, op |-> e.op, path |-> e.path,
              query |-> NoneV, same |-> FALSE]
Returned(q, same) == [status |-> "ok", feature |-> None, op |-> None, path |-> <<>>,
                      query |-> q, same |-> same]

\* validate_queryspec
ValidateQueryspec(query, caps, allowed_fields, allowed_select, allowed_order_by) ==
    LET select == IF query.select.t = "none" THEN Valid
                  ELSE IF ~caps.projection.supported THEN NotSupported("projection", None)
                  ELSE ValidateItems(query.select.items, allowed_select, FALSE, "select", 1)
        where == IF query.where.t = "none" THEN Valid
                 ELSE IF ~caps.filter.supported THEN NotSupported("filtering", None)
                 ELSE ValidateWhereNode(query.where, caps, allowed_fields, <<"where">>)
        order_by == IF query.order_by.t = "none" THEN Valid
                    ELSE IF ~caps.order_by.supported THEN NotSupported("ordering", None)
                    ELSE ValidateItems(query.order_by.items, allowed_order_by, TRUE, "order_by", 1)
        clamped == query.limit.t = "int" /\ query.limit.n >= 0
        result_limit == IF clamped THEN ResultLimit(query.limit, caps.pagination.max_limit)
                        ELSE query.limit
    IN IF query.where.t # "none" /\ ~caps.query.supported
       THEN Raised(NotSupported("query", None))
       ELSE IF select.status # "ok" THEN Raised(select)
       ELSE IF where.status # "ok" THEN Raised(where)
       ELSE IF order_by.status # "ok" THEN Raised(order_by)
       ELSE IF (query.limit.t # "none" \/ query.offset # IntV(0)) /\ ~caps.pagination.supported
            THEN Raised(NotSupported("pagination", None))
       ELSE IF query.limit.t # "none" /\ query.limit.t # "int"
            THEN Raised(ValidationError(<<"limit">>))
       ELSE IF query.limit.t = "int" /\ query.limit.n < 0
            THEN Raised(ValidationError(<<"limit">>))
       ELSE IF query.offset.t # "int" THEN Raised(ValidationError(<<"offset">>))
       ELSE IF query.offset.n < 0 THEN Raised(ValidationError(<<"offset">>))
       ELSE IF result_limit # query.limit
            THEN Returned(QuerySpec(query.select, query.where, query.order_by,
                                    result_limit, query.offset), FALSE)
       ELSE Returned(query, TRUE)

\* filter trees callers write: comparisons, malformed nodes, and not / and /
\* or over them, three levels deep
WhereLeaves ==
    {TupleV(<<StrV("eq"), StrV("f"), IntV(1)>>),
     TupleV(<<StrV("gt"), StrV("f"), IntV(1)>>),
     TupleV(<<StrV("eq"), StrV("g"), IntV(1)>>),
     TupleV(<<StrV("eq"), StrV("f")>>),
     TupleV(<<StrV("foobar"), StrV("f"), IntV(1)>>),
     TupleV(<<StrV("exists"), StrV("f")>>),
     TupleV(<<StrV("in"), StrV("f"), ListV(<<>>)>>),
     TupleV(<<StrV("in"), StrV("f"), IntV(1)>>),
     TupleV(<<IntV(1), StrV("f"), IntV(1)>>),
     TupleV(<<>>),
     StrV("eq")}
Not(c) == TupleV(<<StrV("not"), c>>)
And(l, r) == TupleV(<<StrV("and"), l, r>>)
Or(l, r) == TupleV(<<StrV("or"), l, r>>)
WhereLevel1 ==
    {Not(c) : c \in WhereLeaves}
    \cup {And(l, r) : l \in WhereLeaves, r \in WhereLeaves}
    \cup {Or(TupleV(<<StrV("eq"), StrV("f"), IntV(1)>>), c) : c \in WhereLeaves}
WhereLevel2 ==
    {Not(c) : c \in WhereLevel1}
    \cup {And(Not(l), r) : l \in WhereLeaves, r \in WhereLeaves}
    \cup {And(l, Not(r)) : l \in WhereLeaves, r \in WhereLeaves}
WhereTrees == WhereLeaves \cup WhereLevel1 \cup WhereLevel2

\* the operator sets repositories declare
OpSets == {{"eq", "and"}, {"eq", "gt", "in", "exists", "not", "and", "or"}, {}}
Capabilities(query, projection, filter, ops, order_by, pagination, max_limit) ==
    [query |-> [supported |-> query],
     projection |-> [supported |-> projection],
     filter |-> [supported |-> filter, ops |-> ops],
     order_by |-> [supported |-> order_by],
     pagination |-> [supported |-> pagination, max_limit |-> max_limit]]

Call(query, caps, allowed_fields, allowed_select, allowed_order_by) ==
    [query |-> query, caps |-> caps, allowed_fields |-> allowed_fields,
     allowed_select |-> allowed_select, allowed_order_by |-> allowed_order_by]

\* calls about the where clause, with a select clause in front of it
WhereCalls ==
    {Call(QuerySpec(select, where, NoneV, NoneV, IntV(0)),
          Capabilities(q, p, f, ops, TRUE, TRUE, NoneV),
          allowed, AllowList({"f"}), NoAllowList) :
         select \in {NoneV, ListV(<<StrV("f")>>), ListV(<<StrV("g")>>)},
         where \in WhereTrees, q \in BOOLEAN, p \in BOOLEAN, f \in BOOLEAN,
         ops \in OpSets, allowed \in {NoAllowList, AllowList({"f"})}}

Limits == {NoneV, StrV("10")} \cup {IntV(n) : n \in -1..MaxLimit}
Offsets == {StrV("0")} \cup {IntV(n) : n \in -1..1}
MaxLimits == {NoneV, IntV(0), IntV(MaxLimit - 1)}

\* calls about ordering and pagination
PageCalls ==
    {Call(QuerySpec(select, where, order_by, limit, offset),
          Capabilities(TRUE, TRUE, TRUE, {"eq", "and"}, o, p, max_limit),
          NoAllowList, NoAllowList, AllowList({"f"})) :
         select \in {NoneV, ListV(<<StrV("f")>>)},
         where \in {NoneV, TupleV(<<StrV("eq"), StrV("f"), IntV(1)>>)},
         order_by \in {NoneV, ListV(<<StrV("-f")>>), ListV(<<StrV("f"), StrV("-g")>>),
                       ListV(<<IntV(1)>>)},
         limit \in Limits, offset \in Offsets, o \in BOOLEAN, p \in BOOLEAN,
         max_limit \in MaxLimits}

NoValidation == Call(QuerySpec(NoneV, NoneV, NoneV, NoneV, IntV(0)),
                     Capabilities(FALSE, FALSE, FALSE, {}, FALSE, FALSE, NoneV),
                     NoAllowList, NoAllowList, NoAllowList)
NotValidated == [status |-> "none", feature |-> None, op |-> None, path |-> <<>>,
                 query |-> NoneV, same |-> FALSE]

\* no query at hand
InitValidation ==
    /\ validation = NoValidation
    /\ validated = NotValidated

\* a repository hook validates the query it was given
Validate ==
    /\ validated' = ValidateQueryspec(validation.query, validation.caps,
                                      validation.allowed_fields, validation.allowed_select,
                                      validation.allowed_order_by)
    /\ UNCHANGED validation

----------------------------------------------------------------------------
(* Properties of query validation *)

Call27 == validation.query
Caps27 == validation.caps

\* C27: whenever validate_queryspec returns q' for a query q, either q' is q
\* itself, or q' has q's select, where, order_by and offset and another limit,
\* which is min(q.limit, caps.pagination.max_limit) and so at most max_limit
C27_ReturnsQueryOrClampedCopy ==
    validated.status = "ok" =>
        \/ validated.same /\ validated.query = Call27
        \/ /\ ~validated.same
           /\ validated.query.select = Call27.select
           /\ validated.query.where = Call27.where
           /\ validated.query.order_by = Call27.order_by
           /\ validated.query.offset = Call27.offset
           /\ validated.query.limit # Call27.limit
           /\ Caps27.pagination.max_limit.t = "int"
           /\ validated.query.limit.t = "int"
           /\ validated.query.limit.n = Min(Call27.limit.n, Caps27.pagination.max_limit.n)
           /\ validated.query.limit.n <= Caps27.pagination.max_limit.n

\* a limit above the declared maximum came back clamped, in a copy
C27_Witness ==
    /\ validated.status = "ok"
    /\ ~validated.same
    /\ Call27.limit.t = "int"
    /\ Call27.limit.n > Caps27.pagination.max_limit.n
    /\ validated.query.limit.n = Caps27.pagination.max_limit.n
    /\ Call27.where.t = "tuple"

LogicalOps == {"not", "and", "or"}

\* the operators of a filter tree, in the order of a depth-first walk from
\* left to right
RECURSIVE OpSeq(_)
OpSeq(node) ==
    IF node.t # "tuple" \/ Len(node.items) = 0 THEN <<>>
    ELSE LET head == node.items[1]
             here == IF head.t = "str" THEN <<head.s>> ELSE <<>>
             below(k) == IF k <= Len(node.items) THEN OpSeq(node.items[k]) ELSE <<>>
         IN IF head.t = "str" /\ head.s \in LogicalOps
            THEN here \o below(2) \o below(3)
            ELSE here
OpsOf(node) == {OpSeq(node)[i] : i \in 1..Len(OpSeq(node))}

\* the first operator of the walk that the capability does not declare
FirstUndeclared(node, ops) ==
    LET seq == OpSeq(node)
        i == CHOOSE j \in 1..Len(seq) :
                 seq[j] \notin ops /\ \A h \in 1..(j - 1) : seq[h] \in ops
    IN seq[i]

\* a filter tree without structural defects or refused fields
RECURSIVE WellFormed(_, _)
WellFormed(node, allowed) ==
    /\ node.t = "tuple"
    /\ Len(node.items) > 0
    /\ node.items[1].t = "str"
    /\ LET op == node.items[1].s
       IN /\ GetExpectedArity(op) # 0
          /\ Len(node.items) = GetExpectedArity(op)
          /\ IF op \in LogicalOps
             THEN \A k \in 2..Len(node.items) : WellFormed(node.items[k], allowed)
             ELSE /\ node.items[2].t = "str"
                  /\ Allows(allowed, node.items[2].s)
                  /\ op = "in" => node.items[3].t = "list"

HasWhere == validated.status # "none" /\ Call27.where.t # "none"

\* the select clause gets past its checks
SelectPasses ==
    \/ Call27.select.t = "none"
    \/ /\ Caps27.projection.supported
       /\ \A i \in 1..Len(Call27.select.items) :
              /\ Call27.select.items[i].t = "str"
              /\ Allows(validation.allowed_select, Call27.select.items[i].s)

FilterAdmitted ==
    /\ Caps27.query.supported
    /\ Caps27.filter.supported
    /\ OpsOf(Call27.where) \subseteq Caps27.filter.ops

Unsupported(feature) == validated.status = "NotSupported" /\ validated.feature = feature

\* C28 as stated: a query with a where clause is returned only if the query
\* and filter capabilities are supported and every operator of the tree is
\* declared; otherwise the call fails as unsupported: query first, then
\* filtering, then the offending operator
C28_RefusedOnlyAsUnsupported ==
    HasWhere =>
        /\ validated.status = "ok" => FilterAdmitted
        /\ ~FilterAdmitted =>
               IF ~Caps27.query.supported THEN Unsupported("query")
               ELSE IF ~Caps27.filter.supported THEN Unsupported("filtering")
               ELSE /\ Unsupported("filter operator")
                    /\ validated.op \in OpsOf(Call27.where) \ Caps27.filter.ops

\* C28: a query with a where clause is returned only if the query and filter
\* capabilities are supported and every operator of the tree is declared.
\* Without the query capability the call fails as unsupported ("query"); with
\* it, once the select clause has passed, it fails as unsupported
\* ("filtering") without the filter capability, and for a well-formed tree
\* with an undeclared operator as unsupported for the first such operator of
\* the walk; a malformed tree fails for an undeclared operator or as invalid,
\* whichever the walk meets first
C28_ReturnedOnlyIfFilterAdmitted ==
    HasWhere =>
        /\ validated.status = "ok" => FilterAdmitted
        /\ ~Caps27.query.supported => Unsupported("query")
        /\ Caps27.query.supported /\ SelectPasses /\ ~Caps27.filter.supported
               => Unsupported("filtering")
        /\ Caps27.query.supported /\ SelectPasses /\ Caps27.filter.supported
           /\ ~(OpsOf(Call27.where) \subseteq Caps27.filter.ops)
               => IF WellFormed(Call27.where, validation.allowed_fields)
                  THEN /\ Unsupported("filter operator")
                       /\ validated.op = FirstUndeclared(Call27.where, Caps27.filter.ops)
                  ELSE \/ validated.status = "ValidationError"
                       \/ /\ Unsupported("filter operator")
                          /\ validated.op \in OpsOf(Call27.where) \ Caps27.filter.ops

\* an undeclared operator in the right branch, two levels down, was refused
C28_Witness ==
    /\ HasWhere
    /\ Unsupported("filter operator")
    /\ validated.op = "gt"
    /\ Call27.where.items[1].s = "and"
    /\ Len(Call27.where.items) = 3
    /\ Call27.where.items[3].t = "tuple"
    /\ Len(Call27.where.items[3].items) = 2
    /\ Call27.where.items[3].items[1] = StrV("not")
    /\ WellFormed(Call27.where, validation.allowed_fields)

----------------------------------------------------------------------------
(* Properties of run_once on a queue its clients push to *)

\* no handle is registered under the task's hook name for its plugin
Unresolved(task) ==
    \A i \in 1..Len(GetList(hooks, task.hook)) :
        hooks[task.hook][i].plugin_id # task.plugin_id

\* the step changes the record of no task but id, and creates none
OnlyTaskChanged(id) ==
    /\ DOMAIN tasks' = DOMAIN tasks
    /\ \A other \in DOMAIN tasks \ {id} : tasks'[other] = tasks[other]
    /\ children' = children
    /\ nextId' = nextId

\* C30: run_once reports idle only when the queue was empty; when the popped
\* id has no record it drops the id, changes no task record and reports
\* progress; when the task's (plugin_id, hook) resolves to no handle it marks
\* that task errored with "Hook not found", invokes no hook, creates no
\* children and reports progress
C30_MissingDroppedUnresolvedErrored ==
    [][lastRun'.op = "run_once" =>
          /\ ~lastRun'.ret => queue = <<>>
          /\ queue = <<>> => ~lastRun'.ret /\ OnlyTaskChanged(NoId) /\ queue' = queue
          /\ queue # <<>> /\ Head(queue) \notin DOMAIN tasks =>
                 /\ lastRun'.ret
                 /\ lastRun'.hook = "none"
                 /\ OnlyTaskChanged(NoId)
                 /\ queue' = Tail(queue)
          /\ queue # <<>> /\ Head(queue) \in DOMAIN tasks =>
                 (Unresolved(tasks[Head(queue)]) =>
                     /\ lastRun'.ret
                     /\ lastRun'.hook = "none"
                     /\ trace'[Head(queue)].runs = trace[Head(queue)].runs
                     /\ OnlyTaskChanged(Head(queue))
                     /\ tasks'[Head(queue)].error = "Hook not found"
                     /\ tasks'[Head(queue)].finished_at # NoTime
                     /\ queue' = Tail(queue))]_vars

\* the last run dropped an id without a record, after a run that found no
\* hook for a stored task
C30_Witness ==
    /\ lastRun.op = "run_once"
    /\ lastRun.ret
    /\ lastRun.id \in LostIds
    /\ \E id \in DOMAIN tasks :
           /\ tasks[id].error = "Hook not found"
           /\ trace[id].runs = 0
           /\ trace[id].pops = 1

----------------------------------------------------------------------------
(* Properties of run_once on backends that fail *)

\* the step is a run_once whose hook returned and whose child loop met the
\* failing backend call before any other failure
ChildLoopFailed ==
    /\ lastRun'.op = "run_once"
    /\ "fault" \in DOMAIN lastRun'
    /\ lastRun'.hook = "ok"
    /\ \A j \in 1..lastRun'.fault.at : trace'[lastRun'.id].staged[j].payload_ok

\* the children the failed loop had persisted, and those it had pushed
PersistedBy(fault) == IF fault.stage = "push" THEN fault.at ELSE fault.at - 1
PushedBy(fault) == fault.at - 1

\* a task whose child loop failed on a backend call
FailedInChildLoop(id) == tasks[id].error \in {FaultMsg(stage) : stage \in FaultStages}

\* C31: when persisting or pushing the k-th child fails during run_once, the
\* task is marked errored with the exception's message and no later child is
\* created; the children persisted before the failure stay in the store,
\* those pushed stay on the queue, and later run_once calls pop and finish
\* each of them
C31_FailedChildLoopKeepsEarlierChildren ==
    /\ [][ChildLoopFailed =>
            LET id == lastRun'.id
                fault == lastRun'.fault
                staged == trace'[id].staged
            IN /\ tasks'[id].error = FaultMsg(fault.stage)
               /\ tasks'[id].finished_at # NoTime
               /\ DOMAIN tasks' = DOMAIN tasks \cup (nextId + 1 .. nextId + PersistedBy(fault))
               /\ \A j \in 1..PersistedBy(fault) :
                      /\ tasks'[nextId + j].parent_id = id
                      /\ tasks'[nextId + j].hook = staged[j].hook
                      /\ tasks'[nextId + j].finished_at = NoTime
               /\ \A other \in DOMAIN tasks \ {id} : tasks'[other] = tasks[other]
               /\ queue' = Tail(queue) \o [j \in 1..PushedBy(fault) |-> nextId + j]]_vars
    /\ \A c \in 1..MaxTasks :
           (IF c \in Ids /\ tasks[c].parent_id \in Ids
            THEN InQueue(c) /\ FailedInChildLoop(tasks[c].parent_id)
            ELSE FALSE)
           ~> (IF c \in Ids THEN Finished(c) /\ trace[c].pops = 1 /\ ~InQueue(c)
               ELSE FALSE)

\* the second child could not be pushed; the first one was executed afterwards
C31_Witness ==
    \E id \in Ids :
        /\ tasks[id].error = "queue down"
        /\ Len(GetList(children, id)) = 2
        /\ Finished(children[id][1])
        /\ trace[children[id][1]].runs = 1
        /\ ~Finished(children[id][2])
        /\ trace[children[id][2]].pushes = 0

----------------------------------------------------------------------------
(* Properties of a hook that stages children and then raises *)

\* worker w took a step, and the hook of the job it is handling had raised
AfterRaise(w) ==
    /\ "hookOut" \in DOMAIN workers[w]
    /\ workers[w].pc \in {"create", "enqueue", "mark_done", "failed"}
    /\ workers[w].hookOut.raised
    /\ workers'[w] # workers[w]

\* C32: in both engines a hook that stages children and then raises leaves
\* none of them persisted or enqueued: the run_once step of a raising hook
\* creates no task and pushes no id, and marks the task errored; the worker
\* whose hook raised creates no job and enqueues no message on its way to
\* mark_failed, and the job ends FAILED
C32_RaisingHookCreatesNoChildren ==
    [][/\ tasks' # tasks /\ lastRun'.op = "run_once" /\ lastRun'.hook = "raised" =>
            /\ DOMAIN tasks' = DOMAIN tasks
            /\ children' = children
            /\ DOMAIN trace' = DOMAIN trace
            /\ queue' = Tail(queue)
            /\ tasks'[lastRun'.id].error = lastRun'.msg
            /\ tasks'[lastRun'.id].finished_at # NoTime
            /\ \A t \in Ids \ {lastRun'.id} : tasks'[t] = tasks[t]
       /\ \A w \in DOMAIN workers :
            /\ (workers[w].pc = "hook" /\ workers'[w].pc # "hook"
                /\ workers'[w].hookOut.raised) =>
                   /\ workers'[w].pc = "failed"
                   /\ workers'[w].todo = <<>>
                   /\ jobStore' = jobStore
                   /\ mq' = mq
            /\ AfterRaise(w) =>
                   /\ DOMAIN jobStore'.jobs = DOMAIN jobStore.jobs
                   /\ mq' = mq
                   /\ jobStore'.jobs[workers[w].job.job_id].status = "FAILED"
                   /\ \A j \in DOMAIN jobStore'.jobs :
                          j # workers[w].job.job_id => jobStore'.jobs[j] = jobStore.jobs[j]
                   /\ workers'[w].pc = "loop"]_vars

\* a task whose hook staged two children and raised, and a job whose hook
\* staged a request and raised: both errored, both childless
C32_Witness ==
    /\ \E id \in Ids :
           /\ trace[id].hook = "raised"
           /\ trace[id].emitted = 2
           /\ tasks[id].error = "boom"
           /\ ChildrenOf(id) = {}
    /\ \E w \in DOMAIN workers :
           /\ "hookOut" \in DOMAIN workers[w]
           /\ workers[w].pc = "loop"
           /\ workers[w].hookOut.raised
           /\ workers[w].hookOut.staged = 2
           /\ jobStore.jobs[workers[w].hookOut.job_id].status = "FAILED"
           /\ \A j \in DOMAIN jobStore.jobs :
                  jobStore.jobs[j].parent_job_id # workers[w].hookOut.job_id

----------------------------------------------------------------------------
(* Properties of the sync engine at quiescence *)

\* a pass of worker_loop: run_once and the loop body after it
LoopPass == loop.pc = "run" /\ loop' # loop

\* after the step the queue is empty and every task record is finished
QuiescentAfter ==
    /\ queue' = <<>>
    /\ \A id \in DOMAIN tasks' : tasks'[id].finished_at # NoTime

\* C33: with the in-memory store and queue, when run_once reports idle the
\* queue is empty and every task created by enqueue or by child emission has
\* finished_at set; worker_loop without an iteration cap returns only from
\* such a call, and does so when its sleep interval is not positive
C33_NoTaskUnfinishedAtQuiescence ==
    [][LoopPass =>
          /\ ~lastRun'.ret => QuiescentAfter
          /\ (~loop.capped /\ loop'.pc = "returned") => ~lastRun'.ret /\ QuiescentAfter
          /\ (~loop.capped /\ loop.sleep_seconds <= 0 /\ ~lastRun'.ret)
                 => loop'.pc = "returned"]_vars

\* worker_loop(sleep_seconds=0) has returned from an idle run_once after a
\* root, its child and a raising task
C33_Witness ==
    /\ loop.pc = "returned"
    /\ ~loop.capped /\ loop.sleep_seconds = 0
    /\ lastRun.op = "run_once" /\ ~lastRun.ret
    /\ queue = <<>>
    /\ Cardinality(Ids) = MaxTasks
    /\ \E id \in Ids : tasks[id].parent_id # NoId
    /\ \E id \in Ids : tasks[id].error # None
    /\ \A id \in Ids : Finished(id)

----------------------------------------------------------------------------
(* Properties of a completed tree *)

\* C34: once is_tree_done(R) is true it stays true over every later step,
\* tasks being created only by enqueue of new roots and by child emission
\* inside run_once: the tree of R keeps its descendants, all of them done
C34_CompletedTreeStaysDone ==
    [][\A r \in 1..MaxTasks :
          IsTreeDone(Engine, r) =>
              /\ IsTreeDone(Engine, r)'
              /\ Descendants(r)' = Descendants(r)
              /\ \A t \in {r} \cup Descendants(r) : tasks'[t] = tasks[t]]_vars

\* a tree of a root and its child is done while a later root has been run
C34_Witness ==
    \E r \in Ids :
        /\ IsTreeDone(Engine, r)
        /\ Descendants(r) # {}
        /\ lastRun.op = "run_once"
        /\ lastRun.id \in Ids \ ({r} \cup Descendants(r))
        /\ tasks[lastRun.id].parent_id = NoId

----------------------------------------------------------------------------
(* Properties of a worker that stops handling a message *)

\* the worker leaves _handle_message: back at the loop head, or cancelled
StopsHandling(id) ==
    /\ workers[id].job # NoJob
    /\ workers[id].pc \notin {"loop", "returned", "cancelled"}
    /\ workers'[id].pc \in {"loop", "cancelled"}

\* C35: whenever the worker stops handling a message (return, exception, or
\* cancellation while the hook runs) the handled job is DONE or FAILED
C35_NoJobLeftRunning ==
    [][\A id \in DOMAIN workers :
          StopsHandling(id) =>
              jobStore'.jobs[workers[id].job.job_id].status \in {"DONE", "FAILED"}]_vars

\* the same for the ways out that are not a cancellation
C35_NoJobLeftRunningUnlessCancelled ==
    [][\A id \in DOMAIN workers :
          StopsHandling(id) /\ workers'[id].pc = "loop" =>
              jobStore'.jobs[workers[id].job.job_id].status \in {"DONE", "FAILED"}]_vars

\* a worker cancelled in its hook, its job still RUNNING
C35_CancelledInHook ==
    \E id \in DOMAIN workers :
        /\ workers[id].pc = "cancelled"
        /\ workers[id].job # NoJob
        /\ jobStore.jobs[workers[id].job.job_id].status = "RUNNING"

----------------------------------------------------------------------------
(* Properties of the registry after discovery *)

\* the ids of the registered plugins that are active
ActiveKeys == {plugins[i].key : i \in {k \in 1..Len(plugins) : plugins[k].active}}

\* C36: after find_plugins every registered plugin is active and every handle
\* of the hook index belongs to an active registered plugin (so a plugin whose
\* activation failed is not in the registry)
C36_RegisteredPluginsActive ==
    discovery.ran =>
        /\ \A i \in 1..Len(plugins) : plugins[i].active
        /\ \A n \in DOMAIN hooks :
               \A k \in 1..Len(hooks[n]) : hooks[n][k].plugin_id \in ActiveKeys

\* find_plugins has left a plugin registered that never became active
C36_InactiveRegistered ==
    /\ discovery.ran
    /\ \E i \in 1..Len(plugins) : ~plugins[i].active /\ plugins[i].hooks = <<>>
    /\ \E k \in 1..Len(discovery.log) : discovery.log[k].outcome = "failed"

----------------------------------------------------------------------------
(* Properties of execute_hook after a deactivation *)

\* the handles a call invoked
Invoked(call) ==
    {call.handles[k] : k \in {i \in 1..Len(call.handles) :
                                  \E c \in 1..Len(call.calls) :
                                      call.calls[c] = call.handles[i].function.uid}}

\* C37: after a plugin has been deactivated no call of execute_hook, for any
\* hook name, invokes a hook of that plugin: every handle a call invokes
\* belongs to a plugin that is active at the call
C37_DeactivatedPluginNotInvoked ==
    [][hookCall' # hookCall =>
          \A h \in Invoked(hookCall') : h.plugin_id \in ActiveKeys]_vars

\* the same once the hook index has been rebuilt after the deactivation
C37_NotInvokedAfterRefresh ==
    [][(hookCall' # hookCall /\ hooks = RefreshCaches(plugins)) =>
          \A h \in Invoked(hookCall') : h.plugin_id \in ActiveKeys]_vars

\* a call has invoked a handle of a plugin that is registered and inactive
C37_StaleHandleInvoked ==
    \E h \in Invoked(hookCall) :
        \E i \in 1..Len(plugins) : plugins[i].key = h.plugin_id /\ ~plugins[i].active

----------------------------------------------------------------------------
(* Properties of the iteration cap of worker_loop *)

\* the tasks the loop has executed: only worker_loop runs tasks here
Executed == {t \in Ids : Finished(t)}

\* C38: worker_loop(max_iterations = n) executes at most n tasks, for every
\* n >= 0 and whatever the queue holds
C38_AtMostCapTasksExecuted ==
    loop.capped => Cardinality(Executed) <= loop.max_iterations

\* the same for a cap of at least one; a cap of zero lets one task through
C38_AtMostCapOrOneTaskExecuted ==
    loop.capped =>
        Cardinality(Executed) <= (IF loop.max_iterations = 0 THEN 1
                                  ELSE loop.max_iterations)

\* worker_loop(max_iterations=0) has returned after executing a task
C38_ZeroCapRanOne ==
    /\ loop.capped /\ loop.max_iterations = 0
    /\ loop.pc = "returned"
    /\ Cardinality(Executed) = 1

----------------------------------------------------------------------------
(* Properties of DONE and FAILED in the status view *)

\* a view reported DONE has progress 1.0 and a DONE view for every node below
DoneViewIsComplete(n) ==
    GetStatusView(jobStore, n).status = "DONE" =>
        /\ GetStatusView(jobStore, n).progress = Scale
        /\ \A d \in JobDescendants(n) : GetStatusView(jobStore, d).status = "DONE"

\* C39: a node whose view is DONE has progress 1.0 and a subtree of DONE
\* views; and a FAILED job makes the view of every ancestor FAILED
C39_DoneCompleteAndFailedPropagates ==
    \A n \in JobIds :
        /\ DoneViewIsComplete(n)
        /\ \A d \in JobDescendants(n) :
               StatusOf(d) = "FAILED" => GetStatusView(jobStore, n).status = "FAILED"

\* the first half alone
C39_DoneViewComplete == \A n \in JobIds : DoneViewIsComplete(n)

\* a failed job whose ancestor's view is not FAILED: something below it is
\* still pending or running
C39_FailureMasked ==
    \E n \in JobIds : \E d \in JobDescendants(n) :
        /\ StatusOf(d) = "FAILED"
        /\ GetStatusView(jobStore, n).status = "RUNNING"
        /\ \E g \in JobDescendants(d) : StatusOf(g) \in {"PENDING", "RUNNING"}


\* a failure is hidden from an ancestor only by a pending or running job
\* below the failed one
C39_FailedPropagatesUnlessMasked ==
    \A n \in JobIds : \A d \in JobDescendants(n) :
        (/\ StatusOf(d) = "FAILED"
         /\ ~\E f \in JobDescendants(n) :
                /\ StatusOf(f) = "FAILED"
                /\ \E g \in JobDescendants(f) : StatusOf(g) \in {"PENDING", "RUNNING"})
            => GetStatusView(jobStore, n).status = "FAILED"

----------------------------------------------------------------------------
(* Properties of the default store and queue names *)

\* the default name of a registry is unset or registered
DefaultRegistered(kind) ==
    defaults[kind] = None \/ defaults[kind] \in DOMAIN registries[kind]

MissingError(kind) == IF kind = "stores" THEN "MissingStoreError" ELSE "MissingQueueError"

\* C40: after any sequence of register, unregister and set_default calls on
\* stores and queues the default name is unset or the name of a registered
\* backend; set_default for an unregistered name fails with MissingStoreError
\* (MissingQueueError for queues) and leaves the default as it was
C40_DefaultUnsetOrRegistered ==
    /\ [](\A kind \in BackendKinds : DefaultRegistered(kind))
    /\ [][regOut'.op = "set_default" =>
            IF regOut'.key \in DOMAIN registries[regOut'.kind]
            THEN regOut'.raised = None /\ defaults'[regOut'.kind] = regOut'.key
            ELSE /\ regOut'.raised = MissingError(regOut'.kind)
                 /\ defaults' = defaults
                 /\ registries' = registries]_vars

\* the backend named as default has been unregistered and the default is unset
\* again, the other registry keeping its own default
C40_Witness ==
    /\ regOut.op = "unregister" /\ regOut.ret
    /\ regOut.was = regOut.key
    /\ defaults[regOut.kind] = None
    /\ \E other \in BackendKinds \ {regOut.kind} : defaults[other] # None

----------------------------------------------------------------------------
(* Specifications *)

\* nothing registered in the host's registries, no plugin folder at hand
InitHostVars ==
    /\ InitRegistries
    /\ hostEnv = NoFolders
    /\ InitLifecycle
    /\ InitValidation

\* no worker_loop call, no AgentWorker
NoLoop == [pc |-> "none"]
NoWorkers == <<>>

InitIdle ==
    /\ InitJobs
    /\ workers = NoWorkers
    /\ loop = NoLoop
    /\ InitHostVars

NextMorpheus ==
    \/ FindPlugins /\ UNCHANGED <<fluxVars, agentVars, loop, hostVars>>
    \/ ExecuteHook /\ UNCHANGED <<fluxVars, agentVars, loop, hostVars>>

\* a fresh dispatcher over any plugin folders, the task engine unused
InitSpecMorpheus ==
    /\ disk \in Disks(MaxHandles)
    /\ entryPoints = <<>>
    /\ InitMorpheus
    /\ InitFlux
    /\ InitIdle

\* the dispatcher alone
SpecMorpheus == InitSpecMorpheus /\ [][NextMorpheus]_vars

NextFlux ==
    \/ Enqueue /\ UNCHANGED <<morpheusVars, agentVars, loop, hostVars>>
    \/ RunOnce /\ UNCHANGED <<morpheusVars, agentVars, loop, hostVars>>

\* an empty store and queue, the host's plugins already loaded
InitSpecFlux ==
    /\ disk = FluxDisk
    /\ entryPoints = <<>>
    /\ discovery = NoEntryPoints
    /\ plugins = LoadFromFilesystem(<<>>, disk, 1)
    /\ hooks = RefreshCaches(plugins)
    /\ hookCall = NoCall
    /\ InitFlux
    /\ InitIdle

\* the sync engine with in-memory store and queue
SpecFlux == InitSpecFlux /\ [][NextFlux]_vars

\* the host's plugins loaded, the sync engine unused
InitHost ==
    /\ disk = FluxDisk
    /\ entryPoints = <<>>
    /\ discovery = NoEntryPoints
    /\ plugins = LoadFromFilesystem(<<>>, disk, 1)
    /\ hooks = RefreshCaches(plugins)
    /\ hookCall = NoCall
    /\ InitFlux

NextJobStore ==
    \/ StoreCreateJob /\ UNCHANGED <<morpheusVars, fluxVars, loop, hostVars>>
    \/ StoreMark /\ UNCHANGED <<morpheusVars, fluxVars, loop, hostVars>>

InitSpecJobStore ==
    /\ InitHost
    /\ InitIdle

\* the job store driven directly by its clients
SpecJobStore == InitSpecJobStore /\ [][NextJobStore]_vars

\* a step of worker id; nothing else moves
RunForever(id) == Work(id) /\ UNCHANGED <<morpheusVars, fluxVars, loop, hostVars>>

NextAgent ==
    \/ Submit /\ UNCHANGED <<morpheusVars, fluxVars, loop, hostVars>>
    \/ EnqueueUnstored /\ UNCHANGED <<morpheusVars, fluxVars, loop, hostVars>>
    \/ Redeliver /\ UNCHANGED <<morpheusVars, fluxVars, loop, hostVars>>
    \/ Stop /\ UNCHANGED <<morpheusVars, fluxVars, loop, hostVars>>
    \/ \E id \in DOMAIN workers : RunForever(id)

InitSpecAgent ==
    /\ InitHost
    /\ InitJobs
    /\ InitHostVars
    /\ workers = StartWorkers({"w1"})
    /\ loop = NoLoop

\* one async worker with the in-memory job store and queue
SpecAgent == InitSpecAgent /\ [][NextAgent]_vars

\* run_forever is scheduled as long as it has not returned
SpecAgentFair == SpecAgent /\ WF_vars(RunForever("w1"))

NextWorkers ==
    \/ Submit /\ UNCHANGED <<morpheusVars, fluxVars, loop, hostVars>>
    \/ \E id \in DOMAIN workers : RunForever(id)

InitSpecWorkers ==
    /\ InitHost
    /\ InitJobs
    /\ InitHostVars
    /\ workers = StartWorkers(WorkerIds)
    /\ loop = NoLoop

\* two async workers of one plugin sharing the queue and the store
SpecWorkers == InitSpecWorkers /\ [][NextWorkers]_vars

NextLoop ==
    \/ WorkerLoop /\ UNCHANGED <<morpheusVars, agentVars, hostVars>>
    \/ WakeUp /\ UNCHANGED <<morpheusVars, agentVars, hostVars>>
    \/ EnqueueRoot /\ UNCHANGED <<morpheusVars, agentVars, hostVars>>

InitSpecLoop ==
    /\ InitHost
    /\ InitJobs
    /\ InitHostVars
    /\ workers = NoWorkers
    /\ loop \in {StartLoop(FALSE, 0, s) : s \in SleepChoices}
                \cup {StartLoop(TRUE, m, s) : m \in LoopCaps, s \in SleepChoices}

\* one call of worker_loop on the sync engine, tasks arriving meanwhile
SpecLoop == InitSpecLoop /\ [][NextLoop]_vars


NextRegistry ==
    \/ Register /\ UNCHANGED <<morpheusVars, fluxVars, agentVars, loop, lifecycleVars, validationVars>>

InitSpecRegistry ==
    /\ InitHost
    /\ InitJobs
    /\ workers = NoWorkers
    /\ loop = NoLoop
    /\ InitRegistries
    /\ hostEnv = NoFolders
    /\ InitLifecycle
    /\ InitValidation

\* the four registries driven by their clients
SpecRegistry == InitSpecRegistry /\ [][NextRegistry]_vars


NextDiscovery ==
    \/ FindPlugins /\ UNCHANGED <<fluxVars, agentVars, loop, hostVars>>

\* a fresh dispatcher in an environment with entry points and plugin folders
InitSpecDiscovery ==
    /\ disk \in DiscoveryDisks
    /\ entryPoints \in SeqsUpTo(EntryPointChoices, MaxEntryPoints)
    /\ InitMorpheus
    /\ InitFlux
    /\ InitIdle

\* plugin discovery alone
SpecDiscovery == InitSpecDiscovery /\ [][NextDiscovery]_vars


NextLifecycle ==
    \/ Load /\ UNCHANGED <<morpheusVars, fluxVars, agentVars, loop, registryVars, validationVars>>
    \/ ActivateCall /\ UNCHANGED <<morpheusVars, fluxVars, agentVars, loop, registryVars, validationVars>>
    \/ DeactivateCall /\ UNCHANGED <<morpheusVars, fluxVars, agentVars, loop, registryVars, validationVars>>

\* the environments of the lifecycle: plugin "a" from any folder, its
\* neighbours "a.b" and "b" from a plain one
LifecycleEnvs ==
    {[found |-> f,
      folders |-> [id \in LifecycleIds |-> IF id = "a" THEN folder ELSE PlainFolder]] :
         f \in ManagerChoices, folder \in Folders}

InitSpecLifecycle ==
    /\ InitHost
    /\ InitJobs
    /\ workers = NoWorkers
    /\ loop = NoLoop
    /\ InitRegistries
    /\ hostEnv \in LifecycleEnvs
    /\ InitLifecycle
    /\ InitValidation

\* three plugins loaded, activated and deactivated in one interpreter
SpecLifecycle == InitSpecLifecycle /\ [][NextLifecycle]_vars


NextValidation ==
    \/ Validate /\ UNCHANGED <<morpheusVars, fluxVars, agentVars, loop, registryVars,
                               lifecycleVars>>

InitSpecValidation ==
    /\ InitHost
    /\ InitJobs
    /\ workers = NoWorkers
    /\ loop = NoLoop
    /\ InitRegistries
    /\ hostEnv = NoFolders
    /\ InitLifecycle
    /\ validation \in WhereCalls \cup PageCalls
    /\ validated = NotValidated

\* validate_queryspec applied to a query and a capability record
SpecValidation == InitSpecValidation /\ [][NextValidation]_vars


NextFluxQueue ==
    \/ Enqueue /\ UNCHANGED <<morpheusVars, agentVars, loop, hostVars>>
    \/ PushLost /\ UNCHANGED <<morpheusVars, agentVars, loop, hostVars>>
    \/ RunOnce /\ UNCHANGED <<morpheusVars, agentVars, loop, hostVars>>

\* the sync engine on a queue that other clients push to as well
SpecFluxQueue == InitSpecFlux /\ [][NextFluxQueue]_vars


\* run_once as the worker keeps calling it
FluxRunOnce == RunOnce /\ UNCHANGED <<morpheusVars, agentVars, loop, hostVars>>

NextFluxFaulty ==
    \/ FluxRunOnce
    \/ RunOnceFaulty /\ UNCHANGED <<morpheusVars, agentVars, loop, hostVars>>

\* the engine after enqueue(plugin_id="a", hook="split") on empty backends
RootEnqueued ==
    EnqueueResult([tasks |-> <<>>, children |-> <<>>, queue |-> <<>>, nextId |-> 0,
                   clock |-> 0, trace |-> <<>>], "a", "split", NoId)

InitSpecFluxFaulty ==
    /\ disk = FluxDisk
    /\ entryPoints = <<>>
    /\ discovery = NoEntryPoints
    /\ plugins = LoadFromFilesystem(<<>>, disk, 1)
    /\ hooks = RefreshCaches(plugins)
    /\ hookCall = NoCall
    /\ tasks = RootEnqueued.tasks
    /\ children = RootEnqueued.children
    /\ queue = RootEnqueued.queue
    /\ nextId = RootEnqueued.nextId
    /\ clock = RootEnqueued.clock
    /\ trace = RootEnqueued.trace
    /\ lastRun = [op |-> "enqueue", id |-> RootEnqueued.nextId, ret |-> TRUE,
                  hook |-> "none", msg |-> None]
    /\ InitIdle

\* one root task run on a store and a queue that may fail in the child loop,
\* run_once called again and again
SpecFluxFaulty == InitSpecFluxFaulty /\ [][NextFluxFaulty]_vars /\ WF_vars(FluxRunOnce)


\* the host runs its sync engine before it starts the async worker, and
\* starts the worker on an empty task queue, after its first root at most
AsyncUnused == admitted = 0 /\ \A id \in DOMAIN workers : workers[id].pc = "loop"
SyncAtRest == queue = <<>> /\ nextId <= 1

NextStagedRaise ==
    \/ AsyncUnused /\ Enqueue /\ UNCHANGED <<morpheusVars, agentVars, loop, hostVars>>
    \/ AsyncUnused /\ FluxRunOnce
    \/ SyncAtRest /\ Submit /\ UNCHANGED <<morpheusVars, fluxVars, loop, hostVars>>
    \/ \E id \in DOMAIN workers :
           SyncAtRest /\ WorkNoted(id) /\ UNCHANGED <<morpheusVars, fluxVars, loop, hostVars>>

\* the sync engine, then one async worker, of the same host
SpecStagedRaise == InitSpecAgent /\ [][NextStagedRaise]_vars


NextAgentCancel ==
    \/ Submit /\ UNCHANGED <<morpheusVars, fluxVars, loop, hostVars>>
    \/ \E id \in DOMAIN workers : RunForever(id)
    \/ \E id \in DOMAIN workers :
          Cancel(id) /\ UNCHANGED <<morpheusVars, fluxVars, loop, hostVars>>

\* one async worker whose task can be cancelled by its owner
SpecAgentCancel == InitSpecAgent /\ [][NextAgentCancel]_vars


NextDeactivate ==
    \/ FindPlugins /\ UNCHANGED <<fluxVars, agentVars, loop, hostVars>>
    \/ ExecuteHook /\ UNCHANGED <<fluxVars, agentVars, loop, hostVars>>
    \/ DeactivatePlugin /\ UNCHANGED <<fluxVars, agentVars, loop, hostVars>>
    \/ RefreshCachesCall /\ UNCHANGED <<fluxVars, agentVars, loop, hostVars>>

\* the dispatcher with a host that deactivates plugins
SpecDeactivate == InitSpecMorpheus /\ [][NextDeactivate]_vars


NextDefaults ==
    \/ RegisterBackend /\ UNCHANGED <<morpheusVars, fluxVars, agentVars, loop, lifecycleVars, validationVars>>
    \/ Unregister /\ UNCHANGED <<morpheusVars, fluxVars, agentVars, loop, lifecycleVars, validationVars>>
    \/ SetDefault /\ UNCHANGED <<morpheusVars, fluxVars, agentVars, loop, lifecycleVars, validationVars>>

\* the registries with clients that unregister backends and name defaults
SpecDefaults == InitSpecRegistry /\ [][NextDefaults]_vars

====
